---- MODULE Spec2Model ----
(***************************************************************************)
(* Motion control of the motorized focus rail, in its three revisions:     *)
(*   rev = 2   src/main-v2.py  (StepperMotor, blocking step loop run in   *)
(*             the HTTP handler thread, global motor_status + motor_lock)  *)
(*   rev = 3   src/main-v3.py  (MotorController, one thread per move)      *)
(*   rev = 4   src/main-v4.py  (StepperMotor, retargetable _move_thread)   *)
(* Every lock-protected block and every unlocked access to a shared field  *)
(* is one atomic step of the thread that executes it.                      *)
(***************************************************************************)
EXTENDS Integers, FiniteSets, Sequences, TLC

VARIABLES
    rev,            \* which revision of the program is running
    motor,          \* v2: StepperMotor instance; v3: MotorController instance
    motor_status,   \* v2: the global MotorStatus record (guarded by motor_lock)
    output,         \* v2: the StreamingOutput instance (burst fields)
    z_stepper,      \* v4: the StepperMotor instance
    thr,            \* the threads: request handlers, move threads, burst thread
    fs,             \* the output area: burst directory number -> files in it
    cam,            \* v2: the camera encoder thread inside StreamingOutput.write
    burst_counter,  \* v2: the global burst_counter
    zero_calls,     \* how many set-zero calls were the last steps taken (0, 1, 2)
    pulses          \* the signed number of step pulses emitted since the last
                    \* set-zero call, kept by the specifications that count
                    \* pulses (the others leave it at 0)

vars == <<rev, motor, motor_status, output, z_stepper, thr, fs, cam, burst_counter,
          zero_calls, pulses>>

(* ------------------------------ bounds -------------------------------- *)
\* largest jog amount of a move request
MaxSteps == 2
\* requests are taken only while they keep |position| within this range
MaxPos == 2

\* largest number of images of a burst request
MaxImages == 3

\* acceleration values of a request: a valid one and the degenerate 0
Accels == {0, 1000}
\* speed values of a request: a valid one and the degenerate 0
Speeds == {0, 1000}

Abs(x) == IF x < 0 THEN -x ELSE x

\* The output area holds no burst directory.
NoFiles == [d \in {} |-> {}]

(* --------------------------- thread records --------------------------- *)
\* A thread that is executing nothing.  Locals are reset so that finished
\* requests leave no trace in the state.
\*   steps, speed        arguments of the move
\*   steps_remaining, direction, tmp, i   locals of the step loop
\*   callback            v3: whether move_steps was given a callback
\*   start_pos, end_pos, count, bi, dir   burst run: arguments, loop index
\*                       and the number NNN of its directory burst_NNN
\*   caller              where the move returns to ("jog" or a burst pc)
\*   ret                 how the last move call ended:
\*                       "none", "true", "false", "refused" or "raised"
\*   p0, emitted, clean, after, req   bookkeeping about the move in flight:
\*       p0       position when the move was accepted
\*       emitted  step pulses this move has emitted
\*       clean    no set-zero and no other move request since
\*       after    pulses emitted since an emergency-stop call returned
\*                (-1: no emergency-stop call during this move)
\*       req      v4: the displacement the request asked for, kept until
\*                _move_thread has computed its own step count
IdleThread ==
    [pc |-> "idle", steps |-> 0, speed |-> 0, accel |-> 0,
     steps_remaining |-> 0, direction |-> 0, tmp |-> 0, i |-> 0,
     callback |-> FALSE, caller |-> "jog", ret |-> "none",
     p0 |-> 0, emitted |-> 0, clean |-> TRUE, after |-> -1, req |-> 0,
     start_pos |-> 0, end_pos |-> 0, count |-> 0, bi |-> 0, dir |-> 0]

\* pcs at which a thread is inside a move (between acceptance and return)
MovePcs == {"ms_entry", "loop", "pulse", "wr", "status", "finally", "fin2",
            "mt_read", "upd", "end", "mt_entry", "mt_dir"}
\* pcs of a burst thread outside a move
BurstPcs == {"b_alloc", "b_mkdir", "b_begin", "b_start", "b_loop", "b_move",
             "b_sleep", "b_capture", "b_finally", "b_end", "b_stack"}
\* pcs at which a thread is inside the step loop proper
LoopPcs == {"loop", "pulse", "wr", "status", "upd"}

InMove(t) == thr[t].pc \in MovePcs
InLoop(t) == thr[t].pc \in LoopPcs

\* A set-zero or a move request of thread t is taken: the bookkeeping of
\* every other thread's move (in flight, or just ended) notes it.
Disturb(T, t) ==
    [u \in DOMAIN T |->
        IF u # t /\ T[u].pc # "idle" THEN [T[u] EXCEPT !.clean = FALSE]
        ELSE T[u]]

\* An emergency-stop call has returned: the moves in flight note it.
NoteStop(T) ==
    [u \in DOMAIN T |->
        IF T[u].pc \in MovePcs
        THEN [T[u] EXCEPT !.after = IF @ < 0 THEN 0 ELSE @]
        ELSE T[u]]

\* the threads that run a burst
BurstThreads == {"b", "b2"}

\* A behaviour holds as many burst runs as it has burst threads: a new run
\* is taken while fewer directories than that exist.
RunsLeft == Cardinality(DOMAIN fs) < Cardinality(BurstThreads \cap DOMAIN thr)

\* the order in which free handler threads are taken
ThreadBefore(a, b) ==
    <<a, b>> \in {<<"j1", "j2">>, <<"m1", "m2">>, <<"t1", "t2">>, <<"b", "b2">>}

OthersInMove(t) == \E u \in DOMAIN thr : u # t /\ InMove(u)

\* The handler threads of a kind are interchangeable: a new request is
\* served by the first one that is free ("none" when all are busy).
FreeThread(T) ==
    IF \E u \in T \cap DOMAIN thr : thr[u].pc = "idle"
    THEN CHOOSE u \in T \cap DOMAIN thr :
            /\ thr[u].pc = "idle"
            /\ \A w \in T \cap DOMAIN thr : thr[w].pc = "idle" => ~ThreadBefore(w, u)
    ELSE "none"

(* ====================================================================== *)
(*                      main-v2.py : StepperMotor                         *)
(* ====================================================================== *)
\* progress is the float (burst_count / burst_total) * 100, kept exactly as
\* the pair <<burst_count, burst_total>>; 0 is <<0, 1>>.
ZeroProgress == <<0, 1>>

V2JogThreads == {"j1", "j2"}

\* StepperMotor.__init__ : the instance attributes.  Note emergency_stop:
\* line 365 stores a bool under the name of the method defined at line 461.
V2MotorInit ==
    [current_position |-> 0, target_position |-> 0, is_moving |-> FALSE,
     emergency_stop |-> FALSE]

\* motor_status = MotorStatus(); burst_progress is no field of the dataclass
\* and reads as 0 (getattr default) until the first write.
V2StatusInit ==
    [position |-> 0, target_position |-> 0, state |-> "idle",
     burst_progress |-> ZeroProgress]

\* StreamingOutput.__init__
V2OutputInit ==
    [burst_mode |-> FALSE, burst_dir |-> 0, burst_count |-> 0, burst_total |-> 0]

\* A move call of thread t returns with result r to its caller.
V2Return(t, r) ==
    IF thr[t].caller = "jog"
    THEN [thr[t] EXCEPT !.pc = "respond", !.ret = r]
    ELSE [thr[t] EXCEPT !.pc = thr[t].caller, !.ret = r]

\* An exception leaves the move call of thread t: handle_api catches it
\* (line 608); in perform_burst it runs the finally block and ends the thread.
V2Raise(t) ==
    IF thr[t].caller = "jog"
    THEN [thr[t] EXCEPT !.pc = "respond", !.ret = "raised"]
    ELSE [thr[t] EXCEPT !.pc = "b_finally", !.ret = "raised"]

\* move_relative, lines 396-405: the locked entry block.
V2_move_relative(t, steps, speed) ==
    /\ rev = 2 /\ t \in V2JogThreads /\ t = FreeThread(V2JogThreads)
    /\ Abs(motor.current_position + steps) <= MaxPos
    /\ IF motor_status.state = "emergency_stop"
       THEN /\ thr' = [thr EXCEPT ![t] = [IdleThread EXCEPT !.pc = "respond",
                                              !.ret = "refused",
                                              !.p0 = motor.current_position]]
            /\ UNCHANGED motor_status
       ELSE /\ motor_status' = [motor_status EXCEPT
                                   !.state = "moving",
                                   !.target_position = motor.current_position + steps]
            /\ thr' = [Disturb(thr, t) EXCEPT ![t] =
                         [IdleThread EXCEPT !.pc = "ms_entry", !.steps = steps,
                             !.speed = speed, !.caller = "jog",
                             !.p0 = motor.current_position,
                             !.clean = ~OthersInMove(t)]]
    /\ UNCHANGED <<rev, motor, output, z_stepper, fs, cam, burst_counter>>

\* _move_steps, lines 407-423: up to the loop.
V2_move_steps_entry(t) ==
    /\ rev = 2 /\ thr[t].pc = "ms_entry"
    /\ IF thr[t].steps = 0
       THEN /\ motor_status' = [motor_status EXCEPT !.state = "idle"]
            /\ thr' = [thr EXCEPT ![t] = V2Return(t, "true")]
            /\ UNCHANGED motor
       ELSE IF thr[t].speed = 0
       THEN \* step_delay = 1.0 / abs(speed) raises ZeroDivisionError
            /\ thr' = [thr EXCEPT ![t] = V2Raise(t)]
            /\ UNCHANGED <<motor, motor_status>>
       ELSE /\ motor' = [motor EXCEPT !.is_moving = TRUE]
            /\ thr' = [thr EXCEPT ![t] =
                         [thr[t] EXCEPT !.pc = "loop", !.speed = 0,
                             !.direction = IF thr[t].steps > 0 THEN 1 ELSE -1,
                             !.steps_remaining = Abs(thr[t].steps)]]
            /\ UNCHANGED motor_status
    /\ UNCHANGED <<rev, output, z_stepper, fs, cam, burst_counter>>

\* lines 426-430: the while test and the locked emergency-stop check.
V2_loop(t) ==
    /\ rev = 2 /\ thr[t].pc = "loop"
    /\ IF thr[t].steps_remaining > 0 /\ motor.is_moving
       THEN IF motor_status.state = "emergency_stop"
            THEN /\ motor' = [motor EXCEPT !.is_moving = FALSE]
                 /\ thr' = [thr EXCEPT ![t].pc = "finally"]
            ELSE /\ thr' = [thr EXCEPT ![t].pc = "pulse"]
                 /\ UNCHANGED motor
       ELSE /\ thr' = [thr EXCEPT ![t].pc = "finally"]
            /\ UNCHANGED motor
    /\ UNCHANGED <<rev, motor_status, output, z_stepper, fs, cam, burst_counter>>

\* lines 432-441: one pulse on the step pin, then the read half of
\* self.current_position += 1 (the attribute update is not atomic).
V2_pulse(t) ==
    /\ rev = 2 /\ thr[t].pc = "pulse"
    /\ thr' = [thr EXCEPT ![t] =
                 [thr[t] EXCEPT !.pc = "wr", !.tmp = motor.current_position,
                     !.emitted = @ + 1,
                     !.after = IF @ >= 0 THEN @ + 1 ELSE @]]
    /\ UNCHANGED <<rev, motor, motor_status, output, z_stepper, fs, cam, burst_counter>>

\* lines 438-443: the write half, and steps_remaining -= 1.
V2_wr(t) ==
    /\ rev = 2 /\ thr[t].pc = "wr"
    /\ motor' = [motor EXCEPT !.current_position = thr[t].tmp + thr[t].direction]
    /\ thr' = [thr EXCEPT ![t] =
                 [thr[t] EXCEPT !.pc = "status", !.tmp = 0,
                     !.steps_remaining = @ - 1]]
    /\ UNCHANGED <<rev, motor_status, output, z_stepper, fs, cam, burst_counter>>

\* lines 446-447: publish the position under the lock.
V2_status(t) ==
    /\ rev = 2 /\ thr[t].pc = "status"
    /\ motor_status' = [motor_status EXCEPT !.position = motor.current_position]
    /\ thr' = [thr EXCEPT ![t].pc = "loop"]
    /\ UNCHANGED <<rev, motor, output, z_stepper, fs, cam, burst_counter>>

\* lines 449-451: finally, the unlocked part.
V2_finally(t) ==
    /\ rev = 2 /\ thr[t].pc = "finally"
    /\ motor' = [motor EXCEPT !.is_moving = FALSE]
    /\ thr' = [thr EXCEPT ![t].pc = "fin2"]
    /\ UNCHANGED <<rev, motor_status, output, z_stepper, fs, cam, burst_counter>>

\* lines 453-459: finally, the locked part, and the return value.
V2_fin2(t) ==
    /\ rev = 2 /\ thr[t].pc = "fin2"
    /\ motor_status' =
         IF motor_status.state # "emergency_stop"
         THEN [motor_status EXCEPT !.state = "idle",
                  !.position = motor.current_position,
                  !.target_position = motor.current_position]
         ELSE motor_status
    /\ thr' = [thr EXCEPT ![t] =
                 V2Return(t, IF thr[t].steps_remaining = 0 THEN "true" ELSE "false")]
    /\ UNCHANGED <<rev, motor, output, z_stepper, fs, cam, burst_counter>>

\* handle_api line 587 (or 609 after an exception): the response is sent
\* and the handler thread ends.
V2_respond(t) ==
    /\ rev = 2 /\ thr[t].pc = "respond"
    /\ thr' = [thr EXCEPT ![t] = IdleThread]
    /\ UNCHANGED <<rev, motor, motor_status, output, z_stepper, fs, cam, burst_counter>>

\* V2_set_zero as it would be without line 473: the target is kept.
V2_set_zero_keeps_target ==
    /\ rev = 2
    /\ motor' = [motor EXCEPT !.current_position = 0]
    /\ motor_status' = [motor_status EXCEPT !.position = 0]
    /\ thr' = Disturb(thr, "none")
    /\ UNCHANGED <<rev, output, z_stepper, fs, cam, burst_counter>>

\* StepperMotor.set_zero, lines 468-473 (called from handle_api line 571).
V2_set_zero ==
    /\ rev = 2
    /\ motor' = [motor EXCEPT !.current_position = 0]
    /\ motor_status' = [motor_status EXCEPT !.position = 0, !.target_position = 0]
    /\ thr' = Disturb(thr, "none")
    /\ UNCHANGED <<rev, output, z_stepper, fs, cam, burst_counter>>

\* The body of the method StepperMotor.emergency_stop, lines 461-466.
V2_emergency_stop_method ==
    /\ motor_status' = [motor_status EXCEPT !.state = "emergency_stop"]
    /\ motor' = [motor EXCEPT !.is_moving = FALSE]

\* What the attribute reference motor.emergency_stop yields: the instance
\* attribute of that name when there is one (the bool of line 365), else
\* the method of the class.
V2_lookup_emergency_stop ==
    IF "emergency_stop" \in DOMAIN motor THEN "bool" ELSE "method"

\* handle_api, lines 566-568 and 608-609: motor.emergency_stop() is called.
\* Calling a bool raises TypeError, which handle_api answers with 500.
\* Either way the call has returned to the handler; moves in flight note it.
V2_api_emergency_stop ==
    /\ rev = 2
    /\ IF V2_lookup_emergency_stop = "method"
       THEN V2_emergency_stop_method
       ELSE UNCHANGED <<motor, motor_status>>
    /\ thr' = NoteStop(thr)
    /\ UNCHANGED <<rev, output, z_stepper, fs, cam, burst_counter>>

\* get_status, lines 663-672: the snapshot a status request returns.
V2_get_status ==
    [position |-> motor_status.position,
     target_position |-> motor_status.target_position,
     state |-> motor_status.state,
     burst_progress |-> motor_status.burst_progress]

V2MoveStep(t) ==
    \/ V2_move_steps_entry(t)
    \/ V2_loop(t)
    \/ V2_pulse(t)
    \/ V2_wr(t)
    \/ V2_status(t)
    \/ V2_finally(t)
    \/ V2_fin2(t)

V2JogRequest ==
    \E t \in V2JogThreads, a \in 0..MaxSteps, d \in {1, -1}, sp \in Speeds :
        V2_move_relative(t, d * a, sp)

\* int(x) of the float num / den, den > 0: truncation toward zero.
PyTrunc(num, den) == IF num >= 0 THEN num \div den ELSE -((-num) \div den)

\* perform_burst, lines 626-627 and 646: the k-th target position,
\* int(start + k * ((end - start) / (count - 1))).
V2_target_pos(start, end, count, k) ==
    PyTrunc(start * (count - 1) + k * (end - start), count - 1)

\* StepperMotor.move_to, lines 384-391: the locked entry block, called by
\* thread t with `target`; `back` is where the caller goes on.
V2_move_to(t, target, back) ==
    IF motor_status.state = "emergency_stop"
    THEN /\ thr' = [thr EXCEPT ![t] = [thr[t] EXCEPT !.pc = back, !.ret = "refused"]]
         /\ UNCHANGED motor_status
    ELSE /\ motor_status' = [motor_status EXCEPT !.state = "moving",
                                !.target_position = target]
         /\ thr' = [Disturb(thr, t) EXCEPT ![t] =
                      [thr[t] EXCEPT !.pc = "mt_read", !.tmp = target,
                          !.caller = back, !.ret = "none",
                          !.p0 = motor.current_position, !.emitted = 0,
                          !.clean = ~OthersInMove(t), !.after = -1]]

\* move_to, lines 393-394: steps_to_move = target - self.current_position,
\* read after the lock is released.
V2_mt_read(t) ==
    /\ rev = 2 /\ thr[t].pc = "mt_read"
    /\ thr' = [thr EXCEPT ![t] =
                 [thr[t] EXCEPT !.pc = "ms_entry", !.tmp = 0,
                     !.steps = thr[t].tmp - motor.current_position]]
    /\ UNCHANGED <<rev, motor, motor_status, output, z_stepper, fs, cam, burst_counter>>

\* handle_api /api/burst, lines 589-603: perform_burst is started.
V2_api_burst(t, start, end, count, speed) ==
    /\ rev = 2 /\ t \in BurstThreads /\ t = FreeThread(BurstThreads)
    /\ RunsLeft
    /\ thr' = [thr EXCEPT ![t] =
                 [IdleThread EXCEPT !.pc = "b_alloc", !.start_pos = start,
                     !.end_pos = end, !.count = count, !.speed = speed]]
    /\ UNCHANGED <<rev, motor, motor_status, output, z_stepper, fs, cam, burst_counter>>

\* perform_burst, lines 617-623: one turn of the directory search.
V2_b_alloc(t) ==
    /\ rev = 2 /\ thr[t].pc = "b_alloc"
    /\ IF burst_counter \notin DOMAIN fs
       THEN /\ thr' = [thr EXCEPT ![t] =
                         [thr[t] EXCEPT !.pc = "b_mkdir", !.dir = burst_counter]]
            /\ UNCHANGED burst_counter
       ELSE /\ burst_counter' = burst_counter + 1
            /\ UNCHANGED thr
    /\ UNCHANGED <<rev, motor, motor_status, output, z_stepper, fs, cam>>

\* lines 621-627: os.makedirs(burst_dir), FileExistsError when it exists
\* by now; then step_increment = step_range / (count - 1).  Both are
\* outside the try block: an exception ends the thread with no cleanup.
V2_b_mkdir(t) ==
    /\ rev = 2 /\ thr[t].pc = "b_mkdir"
    /\ IF thr[t].dir \in DOMAIN fs
       THEN /\ thr' = [thr EXCEPT ![t] = [thr[t] EXCEPT !.pc = "exit", !.ret = "raised"]]
            /\ UNCHANGED fs
       ELSE /\ fs' = fs @@ (thr[t].dir :> {})
            /\ thr' = [thr EXCEPT ![t] =
                         IF thr[t].count = 1
                         THEN [thr[t] EXCEPT !.pc = "exit", !.ret = "raised"]
                         ELSE [thr[t] EXCEPT !.pc = "b_begin"]]
    /\ UNCHANGED <<rev, motor, motor_status, output, z_stepper, cam, burst_counter>>

\* lines 629-634: the locked block that starts the run.
V2_b_begin(t) ==
    /\ rev = 2 /\ thr[t].pc = "b_begin"
    /\ motor_status' = [motor_status EXCEPT !.state = "burst"]
    /\ output' = [burst_mode |-> TRUE, burst_dir |-> thr[t].dir,
                  burst_count |-> 0, burst_total |-> thr[t].count]
    /\ thr' = [thr EXCEPT ![t].pc = "b_start"]
    /\ UNCHANGED <<rev, motor, z_stepper, fs, cam, burst_counter>>

\* line 638: motor.move_to(start, speed)
V2_b_start(t) ==
    /\ rev = 2 /\ thr[t].pc = "b_start"
    /\ V2_move_to(t, thr[t].start_pos, "b_loop")
    /\ UNCHANGED <<rev, motor, output, z_stepper, fs, cam, burst_counter>>

\* lines 641-649: the for test and the locked emergency-stop check.
V2_b_loop(t) ==
    /\ rev = 2 /\ thr[t].pc = "b_loop"
    /\ thr' = [thr EXCEPT ![t].pc =
                 IF thr[t].bi >= thr[t].count \/ motor_status.state = "emergency_stop"
                 THEN "b_finally"
                 ELSE IF thr[t].bi > 0 THEN "b_move" ELSE "b_sleep"]
    /\ UNCHANGED <<rev, motor, motor_status, output, z_stepper, fs, cam, burst_counter>>

\* line 650: motor.move_to(target_pos, speed)
V2_b_move(t) ==
    /\ rev = 2 /\ thr[t].pc = "b_move"
    /\ V2_move_to(t, V2_target_pos(thr[t].start_pos, thr[t].end_pos,
                                   thr[t].count, thr[t].bi), "b_sleep")
    /\ UNCHANGED <<rev, motor, output, z_stepper, fs, cam, burst_counter>>

\* line 653: time.sleep(0.1), then the next iteration.
V2_b_sleep(t) ==
    /\ rev = 2 /\ thr[t].pc = "b_sleep"
    /\ thr' = [thr EXCEPT ![t] = [thr[t] EXCEPT !.pc = "b_loop", !.bi = @ + 1]]
    /\ UNCHANGED <<rev, motor, motor_status, output, z_stepper, fs, cam, burst_counter>>

\* lines 655-661: the finally block; the thread ends.
V2_b_finally(t) ==
    /\ rev = 2 /\ thr[t].pc = "b_finally"
    /\ output' = [output EXCEPT !.burst_mode = FALSE, !.burst_dir = 0]
    /\ motor_status' = [motor_status EXCEPT
                           !.state = IF @ # "emergency_stop" THEN "idle" ELSE @,
                           !.burst_progress = ZeroProgress]
    /\ thr' = [thr EXCEPT ![t] =
                 [thr[t] EXCEPT !.pc = "exit",
                     !.ret = IF @ = "raised" THEN @ ELSE "ended"]]
    /\ UNCHANGED <<rev, motor, z_stepper, fs, cam, burst_counter>>

\* The thread is gone.
V2_exit(t) ==
    /\ rev = 2 /\ thr[t].pc = "exit"
    /\ thr' = [thr EXCEPT ![t] = IdleThread]
    /\ UNCHANGED <<rev, motor, motor_status, output, z_stepper, fs, cam, burst_counter>>

V2BurstStep(t) ==
    \/ V2_b_alloc(t)
    \/ V2_b_mkdir(t)
    \/ V2_b_begin(t)
    \/ V2_b_start(t)
    \/ V2_mt_read(t)
    \/ V2_b_loop(t)
    \/ V2_b_move(t)
    \/ V2_b_sleep(t)
    \/ V2_b_finally(t)
    \/ V2_exit(t)

V2BurstRequest ==
    \E s \in 0..1, e \in 0..MaxPos, n \in 0..MaxImages, sp \in Speeds :
        V2_api_burst(FreeThread(BurstThreads), s, e, n, sp)

\* /api/burst requests of a client that asks for a run only when the one
\* before has ended (the same thread serves them all); they stay at
\* position 0 (start = end = 0) and have a valid speed, so that the runs
\* differ in their image count only.
V2RunRequest ==
    \E n \in 0..MaxImages, sp \in Speeds \ {0} :
        V2_api_burst("b", 0, 0, n, sp)

(* ------------- StreamingOutput.write : the camera's frames ------------- *)
CamIdle == [pc |-> "idle", current_pos |-> 0, dir |-> 0, tmp |-> 0]

\* write, lines 488-495: a frame arrives; burst_mode and burst_dir are
\* read without motor_lock.
V2_write ==
    /\ rev = 2 /\ cam.pc = "idle"
    /\ output.burst_mode /\ output.burst_dir # 0
    /\ cam' = [cam EXCEPT !.pc = "c_pos"]
    /\ UNCHANGED <<rev, motor, motor_status, output, z_stepper, thr, fs, burst_counter>>

\* save_burst_image, lines 499-500
V2_c_pos ==
    /\ rev = 2 /\ cam.pc = "c_pos"
    /\ cam' = [cam EXCEPT !.pc = "c_name", !.current_pos = motor_status.position]
    /\ UNCHANGED <<rev, motor, motor_status, output, z_stepper, thr, fs, burst_counter>>

\* line 503: os.path.join(self.burst_dir, ...) raises TypeError when
\* burst_dir is None by now, and write ends.
V2_c_name ==
    /\ rev = 2 /\ cam.pc = "c_name"
    /\ cam' = IF output.burst_dir = 0 THEN CamIdle
              ELSE [cam EXCEPT !.pc = "c_check", !.dir = output.burst_dir]
    /\ UNCHANGED <<rev, motor, motor_status, output, z_stepper, thr, fs, burst_counter>>

\* lines 506-508: the count test and the file write.
V2_c_check ==
    /\ rev = 2 /\ cam.pc = "c_check"
    /\ IF output.burst_count < output.burst_total
       THEN /\ fs' = [fs EXCEPT ![cam.dir] = @ \cup {cam.current_pos}]
            /\ cam' = [cam EXCEPT !.pc = "c_rd", !.current_pos = 0, !.dir = 0]
       ELSE /\ cam' = CamIdle
            /\ UNCHANGED fs
    /\ UNCHANGED <<rev, motor, motor_status, output, z_stepper, thr, burst_counter>>

\* line 510: self.burst_count += 1, the read half
V2_c_rd ==
    /\ rev = 2 /\ cam.pc = "c_rd"
    /\ cam' = [cam EXCEPT !.pc = "c_wr", !.tmp = output.burst_count]
    /\ UNCHANGED <<rev, motor, motor_status, output, z_stepper, thr, fs, burst_counter>>

\* line 510: the write half
V2_c_wr ==
    /\ rev = 2 /\ cam.pc = "c_wr"
    /\ output' = [output EXCEPT !.burst_count = cam.tmp + 1]
    /\ cam' = [cam EXCEPT !.pc = "c_prog", !.tmp = 0]
    /\ UNCHANGED <<rev, motor, motor_status, z_stepper, thr, fs, burst_counter>>

\* lines 513-515: the progress, under the lock; burst_total = 0 raises
\* ZeroDivisionError.
V2_c_prog ==
    /\ rev = 2 /\ cam.pc = "c_prog"
    /\ motor_status' =
         IF output.burst_total = 0 THEN motor_status
         ELSE [motor_status EXCEPT
                  !.burst_progress = <<output.burst_count, output.burst_total>>]
    /\ cam' = CamIdle
    /\ UNCHANGED <<rev, motor, output, z_stepper, thr, fs, burst_counter>>

V2CamStep ==
    \/ V2_write
    \/ V2_c_pos
    \/ V2_c_name
    \/ V2_c_check
    \/ V2_c_rd
    \/ V2_c_wr
    \/ V2_c_prog

(* ====================================================================== *)
(*                     main-v3.py : MotorController                       *)
(* ====================================================================== *)
\* MotorController.__init__, lines 405-409
V3MotorInit ==
    [position |-> 0, target_position |-> 0, moving |-> FALSE,
     emergency_stop_flag |-> FALSE, burst_progress |-> 0]

\* Python 3 round(num / den) for den > 0: to nearest, exact halves to even.
PyRound(num, den) ==
    LET q == num \div den
        r == num % den
    IN  IF 2 * r < den THEN q
        ELSE IF 2 * r > den THEN q + 1
        ELSE IF q % 2 = 0 THEN q ELSE q + 1

\* burst_thread, lines 626-629: the k-th planned position (k from 0),
\* int(round(start_pos + (end_pos - start_pos) * k / (num_images - 1))).
V3_position(start_pos, end_pos, num_images, k) ==
    PyRound(start_pos * (num_images - 1) + (end_pos - start_pos) * k,
            num_images - 1)

\* The lowest NNN >= 1 for which burst_NNN does not exist (lines 615-617).
LowestUnused == CHOOSE n \in 1..(Cardinality(DOMAIN fs) + 1) :
                    /\ n \notin DOMAIN fs
                    /\ \A m \in 1..(n - 1) : m \in DOMAIN fs

\* speed_hz only sets the delays between the steps: max(1, current_speed)
\* (line 465) keeps every divisor positive, so no step of a v3 thread
\* depends on it and the thread records do not keep it.
\* A thread of v3 ends: by returning or by an uncaught exception.
V3Return(t, r) ==
    IF thr[t].caller = "jog"
    THEN [thr[t] EXCEPT !.pc = "exit", !.ret = r]
    ELSE [thr[t] EXCEPT !.pc = thr[t].caller, !.ret = r]

V3Raise(t) == [thr[t] EXCEPT !.pc = "exit", !.ret = "raised"]

\* do_POST /move_motor, lines 578-593: a thread is started on
\* motor.move_steps(steps, speed, acceleration, move_done).
V3_move_motor(t, steps, speed, accel) ==
    /\ rev = 3 /\ t = FreeThread({"m1", "m2"})
    /\ Abs(motor.position + steps) <= MaxPos
    /\ thr' = [thr EXCEPT ![t] =
                 [IdleThread EXCEPT !.pc = "ms_lock", !.steps = steps,
                     !.accel = accel, !.callback = TRUE, !.caller = "jog"]]
    /\ UNCHANGED <<rev, motor, motor_status, output, z_stepper, fs, cam, burst_counter>>

\* V3_ms_lock as it would be without the check of lines 435-437.
V3_ms_lock_unchecked(t) ==
    /\ rev = 3 /\ thr[t].pc = "ms_lock"
    /\ motor' = [motor EXCEPT !.moving = TRUE]
    /\ thr' = [Disturb(thr, t) EXCEPT ![t] =
                 IF thr[t].accel = 0
                 THEN V3Raise(t)
                 ELSE [thr[t] EXCEPT !.pc = "loop", !.i = 0,
                          !.accel = IF thr[t].caller = "jog" THEN 0 ELSE @,
                          !.direction = IF thr[t].steps > 0 THEN 1 ELSE -1,
                          !.p0 = motor.position, !.emitted = 0,
                          !.ret = "none",
                          !.clean = ~OthersInMove(t), !.after = -1]]
    /\ UNCHANGED <<rev, motor_status, output, z_stepper, fs, cam, burst_counter>>

\* V3_ms_lock as it would be without line 436: the refused call leaves
\* emergency_stop_flag set.
V3_ms_lock_sticky(t) ==
    /\ rev = 3 /\ thr[t].pc = "ms_lock"
    /\ IF motor.emergency_stop_flag
       THEN /\ motor' = motor
            /\ thr' = [thr EXCEPT ![t] =
                         [V3Return(t, "refused") EXCEPT !.p0 = motor.position,
                             !.emitted = 0, !.clean = TRUE, !.after = -1]]
       ELSE /\ motor' = [motor EXCEPT !.moving = TRUE]
            /\ thr' = [Disturb(thr, t) EXCEPT ![t] =
                         IF thr[t].accel = 0
                         THEN V3Raise(t)
                         ELSE [thr[t] EXCEPT !.pc = "loop", !.i = 0,
                                  !.accel = IF thr[t].caller = "jog" THEN 0 ELSE @,
                                  !.direction = IF thr[t].steps > 0 THEN 1 ELSE -1,
                                  !.p0 = motor.position, !.emitted = 0,
                                  !.ret = "none",
                                  !.clean = ~OthersInMove(t), !.after = -1]]
    /\ UNCHANGED <<rev, motor_status, output, z_stepper, fs, cam, burst_counter>>

\* move_steps, lines 434-448: the locked entry block, then the ramp length
\* steps_to_accel = min(abs_steps // 2, int(speed_hz * speed_hz /
\* (2 * acceleration))), which divides by zero when acceleration is 0.
V3_ms_lock(t) ==
    /\ rev = 3 /\ thr[t].pc = "ms_lock"
    /\ IF motor.emergency_stop_flag
       THEN /\ motor' = [motor EXCEPT !.emergency_stop_flag = FALSE]
            /\ thr' = [thr EXCEPT ![t] =
                         [V3Return(t, "refused") EXCEPT !.p0 = motor.position,
                             !.emitted = 0, !.clean = TRUE, !.after = -1]]
       ELSE /\ motor' = [motor EXCEPT !.moving = TRUE]
            /\ thr' = [Disturb(thr, t) EXCEPT ![t] =
                         IF thr[t].accel = 0
                         THEN V3Raise(t)
                         ELSE [thr[t] EXCEPT !.pc = "loop", !.i = 0,
                                  !.accel = IF thr[t].caller = "jog" THEN 0 ELSE @,
                                  !.direction = IF thr[t].steps > 0 THEN 1 ELSE -1,
                                  !.p0 = motor.position, !.emitted = 0,
                                  !.ret = "none",
                                  !.clean = ~OthersInMove(t), !.after = -1]]
    /\ UNCHANGED <<rev, motor_status, output, z_stepper, fs, cam, burst_counter>>

\* lines 450-454: the for test and the locked emergency-stop check.
V3_loop(t) ==
    /\ rev = 3 /\ thr[t].pc = "loop"
    /\ IF thr[t].i >= Abs(thr[t].steps)
       THEN /\ thr' = [thr EXCEPT ![t] = [thr[t] EXCEPT !.pc = "end", !.ret = "true"]]
            /\ UNCHANGED motor
       ELSE IF motor.emergency_stop_flag
       THEN /\ motor' = [motor EXCEPT !.emergency_stop_flag = FALSE]
            /\ thr' = [thr EXCEPT ![t] = [thr[t] EXCEPT !.pc = "end", !.ret = "false"]]
       ELSE /\ thr' = [thr EXCEPT ![t].pc = "pulse"]
            /\ UNCHANGED motor
    /\ UNCHANGED <<rev, motor_status, output, z_stepper, fs, cam, burst_counter>>

\* lines 456-467: the speed of this step, then self.step(): one pulse.
V3_pulse(t) ==
    /\ rev = 3 /\ thr[t].pc = "pulse"
    /\ thr' = [thr EXCEPT ![t] =
                 [thr[t] EXCEPT !.pc = "upd", !.emitted = @ + 1,
                     !.after = IF @ >= 0 THEN @ + 1 ELSE @]]
    /\ UNCHANGED <<rev, motor, motor_status, output, z_stepper, fs, cam, burst_counter>>

\* V3_upd as it would be with self.position += 1: the direction is ignored.
V3_upd_unsigned(t) ==
    /\ rev = 3 /\ thr[t].pc = "upd"
    /\ motor' = [motor EXCEPT !.position = @ + 1]
    /\ thr' = [thr EXCEPT ![t] =
                 IF thr[t].callback /\ thr[t].i % 100 = 0
                 THEN V3Raise(t)
                 ELSE [thr[t] EXCEPT !.pc = "loop", !.i = @ + 1]]
    /\ UNCHANGED <<rev, motor_status, output, z_stepper, fs, cam, burst_counter>>

\* lines 469-476: position += direction under the lock, the delay, and the
\* callback: callback(i / abs_steps * 100) when i % 100 == 0.  The only
\* callback ever passed is move_done (line 584), which takes no argument,
\* so the call raises TypeError and ends the thread.
V3_upd(t) ==
    /\ rev = 3 /\ thr[t].pc = "upd"
    /\ motor' = [motor EXCEPT !.position = @ + thr[t].direction]
    /\ thr' = [thr EXCEPT ![t] =
                 IF thr[t].callback /\ thr[t].i % 100 = 0
                 THEN V3Raise(t)
                 ELSE [thr[t] EXCEPT !.pc = "loop", !.i = @ + 1]]
    /\ UNCHANGED <<rev, motor_status, output, z_stepper, fs, cam, burst_counter>>

\* lines 478-480: moving = False under the lock; move_steps returns.
V3_end(t) ==
    /\ rev = 3 /\ thr[t].pc = "end"
    /\ motor' = [motor EXCEPT !.moving = FALSE]
    /\ thr' = [thr EXCEPT ![t] = V3Return(t, thr[t].ret)]
    /\ UNCHANGED <<rev, motor_status, output, z_stepper, fs, cam, burst_counter>>

\* The thread is gone.
V3_exit(t) ==
    /\ rev = 3 /\ thr[t].pc = "exit"
    /\ thr' = [thr EXCEPT ![t] = IdleThread]
    /\ UNCHANGED <<rev, motor, motor_status, output, z_stepper, fs, cam, burst_counter>>

\* MotorController.emergency_stop, lines 490-495 (do_POST line 601).
V3_emergency_stop ==
    /\ rev = 3
    /\ motor' = [motor EXCEPT !.emergency_stop_flag = TRUE, !.moving = FALSE]
    /\ thr' = NoteStop(thr)
    /\ UNCHANGED <<rev, motor_status, output, z_stepper, fs, cam, burst_counter>>

\* MotorController.set_zero, lines 497-501 (do_POST line 596).
V3_set_zero ==
    /\ rev = 3
    /\ motor' = [motor EXCEPT !.position = 0, !.target_position = 0]
    /\ thr' = Disturb(thr, "none")
    /\ UNCHANGED <<rev, motor_status, output, z_stepper, fs, cam, burst_counter>>

\* MotorController.get_status, lines 503-510.
V3_get_status ==
    [position |-> motor.position, moving |-> motor.moving,
     burst_progress |-> motor.burst_progress]

\* do_POST /take_burst, lines 605-657: burst_thread is started.
V3_take_burst(t, start_pos, end_pos, num_images, speed, accel) ==
    /\ rev = 3 /\ t \in BurstThreads /\ t = FreeThread(BurstThreads)
    /\ RunsLeft
    /\ thr' = [thr EXCEPT ![t] =
                 [IdleThread EXCEPT !.pc = "b_alloc", !.start_pos = start_pos,
                     !.end_pos = end_pos, !.count = num_images,
                     !.accel = accel]]
    /\ UNCHANGED <<rev, motor, motor_status, output, z_stepper, fs, cam, burst_counter>>

\* burst_thread, lines 615-619: find the first burst_NNN that does not exist.
V3_b_alloc(t) ==
    /\ rev = 3 /\ thr[t].pc = "b_alloc"
    /\ thr' = [thr EXCEPT ![t] = [thr[t] EXCEPT !.pc = "b_mkdir", !.dir = LowestUnused]]
    /\ UNCHANGED <<rev, motor, motor_status, output, z_stepper, fs, cam, burst_counter>>

\* line 620: os.makedirs(burst_dir), FileExistsError when it exists by now.
V3_b_mkdir(t) ==
    /\ rev = 3 /\ thr[t].pc = "b_mkdir"
    /\ IF thr[t].dir \in DOMAIN fs
       THEN thr' = [thr EXCEPT ![t] = V3Raise(t)] /\ UNCHANGED fs
       ELSE /\ fs' = fs @@ (thr[t].dir :> {})
            /\ thr' = [thr EXCEPT ![t].pc = "b_start"]
    /\ UNCHANGED <<rev, motor, motor_status, output, z_stepper, cam, burst_counter>>

\* move_to_position, lines 482-488, called by thread t with `target`;
\* `back` is where the caller goes on.
V3_move_to_position(t, target, back) ==
    LET steps_to_move == target - motor.position
    IN  IF steps_to_move # 0
        THEN [thr[t] EXCEPT !.pc = "ms_lock", !.steps = steps_to_move,
                 !.callback = FALSE, !.caller = back, !.ret = "none"]
        ELSE [thr[t] EXCEPT !.pc = back]

\* line 623: motor.move_to_position(start_pos, speed, acceleration)
V3_b_start(t) ==
    /\ rev = 3 /\ thr[t].pc = "b_start"
    /\ thr' = [thr EXCEPT ![t] = V3_move_to_position(t, thr[t].start_pos, "b_loop")]
    /\ UNCHANGED <<rev, motor, motor_status, output, z_stepper, fs, cam, burst_counter>>

\* lines 626-637: the positions are planned (a division by num_images - 1)
\* before the first iteration; then the for test, the locked emergency-stop
\* check and the progress update.
V3_b_loop(t) ==
    /\ rev = 3 /\ thr[t].pc = "b_loop"
    /\ IF thr[t].count = 1
       THEN /\ thr' = [thr EXCEPT ![t] = V3Raise(t)]
            /\ UNCHANGED motor
       ELSE IF thr[t].bi >= thr[t].count
       THEN /\ thr' = [thr EXCEPT ![t].pc = "b_end"]
            /\ UNCHANGED motor
       ELSE IF motor.emergency_stop_flag
       THEN /\ motor' = [motor EXCEPT !.emergency_stop_flag = FALSE]
            /\ thr' = [thr EXCEPT ![t].pc = "b_end"]
       ELSE /\ motor' = [motor EXCEPT !.burst_progress =
                            ((thr[t].bi + 1) * 100) \div thr[t].count]
            /\ thr' = [thr EXCEPT ![t].pc = "b_move"]
    /\ UNCHANGED <<rev, motor_status, output, z_stepper, fs, cam, burst_counter>>

\* line 640: motor.move_to_position(pos, speed, acceleration)
V3_b_move(t) ==
    /\ rev = 3 /\ thr[t].pc = "b_move"
    /\ thr' = [thr EXCEPT ![t] =
                 V3_move_to_position(t,
                     V3_position(thr[t].start_pos, thr[t].end_pos, thr[t].count,
                                 thr[t].bi),
                     "b_capture")]
    /\ UNCHANGED <<rev, motor, motor_status, output, z_stepper, fs, cam, burst_counter>>

\* lines 643-647: picam2.capture_file(f"{burst_dir}/burst_{pos:04d}.jpeg");
\* the camera may fail, and the exception ends the thread.
V3_b_capture(t, ok) ==
    /\ rev = 3 /\ thr[t].pc = "b_capture"
    /\ IF ok
       THEN /\ fs' = [fs EXCEPT ![thr[t].dir] = @ \cup
                        {V3_position(thr[t].start_pos, thr[t].end_pos,
                                     thr[t].count, thr[t].bi)}]
            /\ thr' = [thr EXCEPT ![t] = [thr[t] EXCEPT !.pc = "b_loop", !.bi = @ + 1]]
       ELSE /\ thr' = [thr EXCEPT ![t] = V3Raise(t)]
            /\ UNCHANGED fs
    /\ UNCHANGED <<rev, motor, motor_status, output, z_stepper, cam, burst_counter>>

\* lines 649-650: burst_progress = 0 under the lock; the thread ends.
V3_b_end(t) ==
    /\ rev = 3 /\ thr[t].pc = "b_end"
    /\ motor' = [motor EXCEPT !.burst_progress = 0]
    /\ thr' = [thr EXCEPT ![t] = [thr[t] EXCEPT !.pc = "exit", !.ret = "ended"]]
    /\ UNCHANGED <<rev, motor_status, output, z_stepper, fs, cam, burst_counter>>

V3MoveStep(t) ==
    \/ V3_ms_lock(t)
    \/ V3_loop(t)
    \/ V3_pulse(t)
    \/ V3_upd(t)
    \/ V3_end(t)
    \/ V3_exit(t)

V3BurstStep(t) ==
    \/ V3_b_alloc(t)
    \/ V3_b_mkdir(t)
    \/ V3_b_start(t)
    \/ V3_b_loop(t)
    \/ V3_b_move(t)
    \/ \E ok \in BOOLEAN : V3_b_capture(t, ok)
    \/ V3_b_end(t)

V3JogRequest ==
    \E t \in {"m1", "m2"}, a \in 0..MaxSteps, d \in {1, -1},
       sp \in Speeds, ac \in Accels :
        V3_move_motor(t, d * a, sp, ac)

V3BurstRequest ==
    \E s \in 0..1, e \in 0..MaxPos, n \in 0..MaxImages, sp \in Speeds, ac \in Accels :
        V3_take_burst(FreeThread(BurstThreads), s, e, n, sp, ac)

(* ====================================================================== *)
(*                      main-v4.py : StepperMotor                         *)
(* ====================================================================== *)
\* StepperMotor.__init__, lines 308-311
V4MotorInit ==
    [current_position |-> 0, target_position |-> 0, is_moving |-> FALSE,
     emergency_stop |-> FALSE]

V4MoveThreads == {"t1", "t2"}

\* do_POST /api/move, lines 478-484, and StepperMotor.move, lines 337-342:
\* the handler reads self.target_position (no lock) to form the target.
V4_move(t, steps, direction) ==
    /\ rev = 4 /\ t = "r1" /\ t \in DOMAIN thr /\ thr[t].pc = "idle"
    /\ LET target == IF direction = "positive"
                     THEN z_stepper.target_position + steps
                     ELSE z_stepper.target_position - steps
       IN  /\ Abs(target) <= MaxPos
           /\ thr' = [thr EXCEPT ![t] =
                        [IdleThread EXCEPT !.pc = "move_to", !.tmp = target,
                            !.req = target - z_stepper.target_position,
                            !.clean = ~OthersInMove(t), !.caller = "jog"]]
    /\ UNCHANGED <<rev, motor, motor_status, output, z_stepper, fs, cam, burst_counter>>

\* A new _move_thread, started by move_to with (speed, acceleration) on
\* behalf of a request for a displacement of req steps.
V4NewThread(speed, accel, req) ==
    [IdleThread EXCEPT !.pc = "mt_entry", !.speed = speed, !.accel = accel,
        !.p0 = z_stepper.current_position, !.req = req]

\* move_to has returned to thread t, which goes on at `back`; a request
\* handler has no further use for its arguments.
V4Returned(t, back, r) ==
    IF thr[t].caller = "jog"
    THEN [IdleThread EXCEPT !.pc = back, !.ret = r]
    ELSE [thr[t] EXCEPT !.pc = back, !.ret = r]

\* V4_move_to as it would be without the test of line 350: a thread is
\* started whether or not a move is in flight.
V4_move_to_always(t, back, speed, accel) ==
    /\ rev = 4
    /\ IF z_stepper.emergency_stop
       THEN /\ thr' = [thr EXCEPT ![t] = V4Returned(t, back, "refused")]
            /\ UNCHANGED z_stepper
       ELSE /\ FreeThread(V4MoveThreads) # "none"
            /\ z_stepper' = [z_stepper EXCEPT !.target_position = thr[t].tmp,
                                !.is_moving = TRUE]
            /\ thr' = [Disturb(thr, t) EXCEPT
                         ![t] = V4Returned(t, back, "started"),
                         ![FreeThread(V4MoveThreads)] =
                             [V4NewThread(speed, accel, thr[t].req) EXCEPT
                                 !.clean = thr[t].clean /\ ~OthersInMove(t)]]
    /\ UNCHANGED <<rev, motor, motor_status, output, fs, cam, burst_counter>>

\* StepperMotor.move_to, lines 344-352, one locked block; thread t calls it
\* with target thr[t].tmp, speed and acceleration, and goes on at `back`.
V4_move_to(t, back, speed, accel) ==
    /\ rev = 4
    /\ IF z_stepper.emergency_stop
       THEN /\ thr' = [thr EXCEPT ![t] = V4Returned(t, back, "refused")]
            /\ UNCHANGED z_stepper
       ELSE IF z_stepper.is_moving
       THEN \* only retargets the move in flight
            /\ z_stepper' = [z_stepper EXCEPT !.target_position = thr[t].tmp]
            /\ thr' = [Disturb(thr, t) EXCEPT ![t] = V4Returned(t, back, "retargeted")]
       ELSE /\ FreeThread(V4MoveThreads) # "none"
            /\ z_stepper' = [z_stepper EXCEPT !.target_position = thr[t].tmp,
                                !.is_moving = TRUE]
            /\ thr' = [Disturb(thr, t) EXCEPT
                         ![t] = V4Returned(t, back, "started"),
                         ![FreeThread(V4MoveThreads)] =
                             [V4NewThread(speed, accel, thr[t].req) EXCEPT
                                 !.clean = thr[t].clean /\ ~OthersInMove(t)]]
    /\ UNCHANGED <<rev, motor, motor_status, output, fs, cam, burst_counter>>

\* the call of move_to made by move (lines 340, 342), with the speed and
\* acceleration of the request
V4_move_call(t) ==
    /\ rev = 4 /\ thr[t].pc = "move_to" /\ thr[t].caller = "jog"
    /\ \E speed \in Speeds, accel \in Accels : V4_move_to(t, "respond", speed, accel)

\* do_POST lines 486-487: the response is sent, the handler thread ends.
V4_respond(t) ==
    /\ rev = 4 /\ thr[t].pc = "respond"
    /\ thr' = [thr EXCEPT ![t] = IdleThread]
    /\ UNCHANGED <<rev, motor, motor_status, output, z_stepper, fs, cam, burst_counter>>

\* _move_thread, lines 356-359: the step count, read without the lock.
V4_mt_entry(t) ==
    /\ rev = 4 /\ thr[t].pc = "mt_entry"
    /\ LET steps_to_move == Abs(z_stepper.target_position - z_stepper.current_position)
       IN  IF steps_to_move = 0
           THEN /\ z_stepper' = [z_stepper EXCEPT !.is_moving = FALSE]
                /\ thr' = [thr EXCEPT ![t] =
                             [thr[t] EXCEPT !.pc = "exit", !.ret = "true", !.req = 0]]
           ELSE /\ thr' = [thr EXCEPT ![t] =
                             [thr[t] EXCEPT !.pc = "mt_dir", !.steps = steps_to_move,
                                 !.req = 0]]
                /\ UNCHANGED z_stepper
    /\ UNCHANGED <<rev, motor, motor_status, output, fs, cam, burst_counter>>

\* lines 362-367: the direction, read again without the lock, and
\* accel_steps = min(steps_to_move // 2, int(speed * speed / (2 *
\* acceleration))), which divides by zero when acceleration is 0.
V4_mt_dir(t) ==
    /\ rev = 4 /\ thr[t].pc = "mt_dir"
    /\ thr' = [thr EXCEPT ![t] =
                 IF thr[t].accel = 0
                 THEN [thr[t] EXCEPT !.pc = "exit", !.ret = "raised"]
                 ELSE [thr[t] EXCEPT !.pc = "loop", !.i = 0, !.accel = 0,
                          !.direction =
                             IF z_stepper.target_position > z_stepper.current_position
                             THEN 1 ELSE -1]]
    /\ UNCHANGED <<rev, motor, motor_status, output, z_stepper, fs, cam, burst_counter>>

\* lines 369-373: the for test and the locked emergency-stop check.
V4_loop(t) ==
    /\ rev = 4 /\ thr[t].pc = "loop"
    /\ IF thr[t].i >= thr[t].steps
       THEN /\ thr' = [thr EXCEPT ![t].pc = "end"]
            /\ UNCHANGED z_stepper
       ELSE IF z_stepper.emergency_stop
       THEN /\ z_stepper' = [z_stepper EXCEPT !.is_moving = FALSE]
            /\ thr' = [thr EXCEPT ![t] = [thr[t] EXCEPT !.pc = "exit", !.ret = "false"]]
       ELSE /\ thr' = [thr EXCEPT ![t].pc = "pulse"]
            /\ UNCHANGED z_stepper
    /\ UNCHANGED <<rev, motor, motor_status, output, fs, cam, burst_counter>>

\* lines 375-394: one pulse, then the delay time.sleep(1 / (speed *
\* current_speed)); when that raises, the bare except sleeps 1 / speed
\* instead, which raises again when speed is 0 and ends the thread.
V4_pulse(t) ==
    /\ rev = 4 /\ thr[t].pc = "pulse"
    /\ thr' = [thr EXCEPT ![t] =
                 [thr[t] EXCEPT
                     !.pc = IF thr[t].speed = 0 THEN "exit" ELSE "loop",
                     !.ret = IF thr[t].speed = 0 THEN "raised" ELSE @,
                     !.i = @ + 1,
                     !.emitted = @ + 1,
                     !.after = IF @ >= 0 THEN @ + 1 ELSE @]]
    /\ UNCHANGED <<rev, motor, motor_status, output, z_stepper, fs, cam, burst_counter>>

\* V4_end as it would be without line 397: the position is never set.
V4_end_without_position(t) ==
    /\ rev = 4 /\ thr[t].pc = "end"
    /\ z_stepper' = [z_stepper EXCEPT !.is_moving = FALSE]
    /\ thr' = [thr EXCEPT ![t] = [thr[t] EXCEPT !.pc = "exit", !.ret = "true"]]
    /\ UNCHANGED <<rev, motor, motor_status, output, fs, cam, burst_counter>>

\* lines 396-398: the locked end block.
V4_end(t) ==
    /\ rev = 4 /\ thr[t].pc = "end"
    /\ z_stepper' = [z_stepper EXCEPT !.current_position = z_stepper.target_position,
                        !.is_moving = FALSE]
    /\ thr' = [thr EXCEPT ![t] = [thr[t] EXCEPT !.pc = "exit", !.ret = "true"]]
    /\ UNCHANGED <<rev, motor, motor_status, output, fs, cam, burst_counter>>

\* The thread is gone.
V4_exit(t) ==
    /\ rev = 4 /\ thr[t].pc = "exit"
    /\ thr' = [thr EXCEPT ![t] = IdleThread]
    /\ UNCHANGED <<rev, motor, motor_status, output, z_stepper, fs, cam, burst_counter>>

\* StepperMotor.emergency_stop_now, lines 332-335 (do_POST line 496).
V4_emergency_stop_now ==
    /\ rev = 4
    /\ z_stepper' = [z_stepper EXCEPT !.emergency_stop = TRUE, !.is_moving = FALSE]
    /\ thr' = NoteStop(thr)
    /\ UNCHANGED <<rev, motor, motor_status, output, fs, cam, burst_counter>>

\* StepperMotor.set_zero, lines 327-330 (do_POST line 490).
V4_set_zero ==
    /\ rev = 4
    /\ z_stepper' = [z_stepper EXCEPT !.current_position = 0, !.target_position = 0]
    /\ thr' = Disturb(thr, "none")
    /\ UNCHANGED <<rev, motor, motor_status, output, fs, cam, burst_counter>>

\* do_GET /api/position, lines 463-467: what a position request reports.
V4_api_position == z_stepper.current_position

V4MoveStep(t) ==
    \/ V4_move_call(t)
    \/ V4_respond(t)
    \/ V4_mt_entry(t)
    \/ V4_mt_dir(t)
    \/ V4_loop(t)
    \/ V4_pulse(t)
    \/ V4_end(t)
    \/ V4_exit(t)

V4JogRequest ==
    \E a \in 0..MaxSteps, d \in {"positive", "negative"} :
        V4_move("r1", a, d)

(* ------------------------- main-v4.py : take_burst -------------------- *)
\* take_burst of main-v4, lines 547-551: the k-th planned position (k from
\* 0), int(start_pos + k * ((end_pos - start_pos) / (num_images - 1))).
\* (The quotient is a float in the code; for the divisors 1, 2 and for
\* 1000 / 9 its products truncate to the same integers as the exact ones.)
V4_position(start_pos, end_pos, num_images, k) ==
    PyTrunc(start_pos * (num_images - 1) + k * (end_pos - start_pos),
            num_images - 1)

\* do_POST /api/burst, lines 501-512: a thread running take_burst is
\* started. The thread keeps in tmp the position of its next move_to call
\* (first start_pos).
V4_api_burst(t, start_pos, end_pos, num_images, speed, accel) ==
    /\ rev = 4 /\ t \in BurstThreads /\ t = FreeThread(BurstThreads)
    /\ RunsLeft
    /\ thr' = [thr EXCEPT ![t] =
                 [IdleThread EXCEPT !.pc = "b_alloc", !.start_pos = start_pos,
                     !.end_pos = end_pos, !.count = num_images,
                     !.speed = speed, !.accel = accel, !.tmp = start_pos,
                     !.caller = "burst"]]
    /\ UNCHANGED <<rev, motor, motor_status, output, z_stepper, fs, cam, burst_counter>>

\* V4_b_alloc as it would be without the search loop of lines 533-534:
\* burst_num stays 1.
V4_b_alloc_first(t) ==
    /\ rev = 4 /\ thr[t].pc = "b_alloc"
    /\ thr' = [thr EXCEPT ![t] = [thr[t] EXCEPT !.pc = "b_mkdir", !.dir = 1]]
    /\ UNCHANGED <<rev, motor, motor_status, output, z_stepper, fs, cam, burst_counter>>

\* take_burst, lines 532-536: find the first burst_NNN that does not exist.
V4_b_alloc(t) ==
    /\ rev = 4 /\ thr[t].pc = "b_alloc"
    /\ thr' = [thr EXCEPT ![t] = [thr[t] EXCEPT !.pc = "b_mkdir", !.dir = LowestUnused]]
    /\ UNCHANGED <<rev, motor, motor_status, output, z_stepper, fs, cam, burst_counter>>

\* line 537: os.makedirs(burst_dir, exist_ok=True), which also succeeds
\* when the directory exists by now.
V4_b_mkdir(t) ==
    /\ rev = 4 /\ thr[t].pc = "b_mkdir"
    /\ fs' = IF thr[t].dir \in DOMAIN fs THEN fs ELSE fs @@ (thr[t].dir :> {})
    /\ thr' = [thr EXCEPT ![t].pc = "b_start"]
    /\ UNCHANGED <<rev, motor, motor_status, output, z_stepper, cam, burst_counter>>

\* line 540: z_stepper.move_to(start_pos, speed, acceleration)
V4_b_start(t) ==
    /\ rev = 4 /\ thr[t].pc = "b_start"
    /\ V4_move_to(t, "b_wait0", thr[t].speed, thr[t].accel)

\* V4_wait as it would be without the wait loops: take_burst goes on as
\* soon as move_to has returned.
V4_wait_skipped(t, wait, chk, done) ==
    /\ rev = 4 /\ thr[t].pc = wait
    /\ thr' = [thr EXCEPT ![t].pc = done]
    /\ UNCHANGED <<rev, motor, motor_status, output, z_stepper, fs, cam, burst_counter>>

\* lines 541 and 562: the test of `while z_stepper.is_moving` (no lock);
\* `wait` is the pc of the test, `chk` of the loop body, `done` the pc
\* after the loop.
V4_wait(t, wait, chk, done) ==
    /\ rev = 4 /\ thr[t].pc = wait
    /\ thr' = [thr EXCEPT ![t].pc = IF z_stepper.is_moving THEN chk ELSE done]
    /\ UNCHANGED <<rev, motor, motor_status, output, z_stepper, fs, cam, burst_counter>>

\* V4_chk as it would be with `break` in place of `return`: a stopped run
\* falls through to the code after the loop.
V4_chk_break(t, wait, chk) ==
    /\ rev = 4 /\ thr[t].pc = chk
    /\ thr' = [thr EXCEPT ![t] =
                 IF z_stepper.emergency_stop
                 THEN [thr[t] EXCEPT !.pc = "b_stack", !.ret = "stopped"]
                 ELSE [thr[t] EXCEPT !.pc = wait]]
    /\ UNCHANGED <<rev, motor, motor_status, output, z_stepper, fs, cam, burst_counter>>

\* lines 542-544 and 563-565: the sleep, then `if z_stepper.emergency_stop:
\* return` (no lock).
V4_chk(t, wait, chk) ==
    /\ rev = 4 /\ thr[t].pc = chk
    /\ thr' = [thr EXCEPT ![t] =
                 IF z_stepper.emergency_stop
                 THEN [thr[t] EXCEPT !.pc = "exit", !.ret = "stopped"]
                 ELSE [thr[t] EXCEPT !.pc = wait]]
    /\ UNCHANGED <<rev, motor, motor_status, output, z_stepper, fs, cam, burst_counter>>

\* V4_b_loop as it would be without lines 555-556: the loop does not look
\* at emergency_stop.
V4_b_loop_unchecked(t) ==
    /\ rev = 4 /\ thr[t].pc = "b_loop"
    /\ thr' = [thr EXCEPT ![t] =
                 IF thr[t].count <= 1 \/ thr[t].bi >= thr[t].count
                 THEN [thr[t] EXCEPT !.pc = "b_stack"]
                 ELSE [thr[t] EXCEPT !.pc = "b_move",
                          !.tmp = V4_position(thr[t].start_pos, thr[t].end_pos,
                                              thr[t].count, thr[t].bi)]]
    /\ UNCHANGED <<rev, motor, motor_status, output, z_stepper, fs, cam, burst_counter>>

\* lines 547-556: the positions are planned when num_images > 1; then the
\* for test and `if z_stepper.emergency_stop: return`. After the last
\* position the thread goes on to the focus stacking.
V4_b_loop(t) ==
    /\ rev = 4 /\ thr[t].pc = "b_loop"
    /\ thr' = [thr EXCEPT ![t] =
                 IF thr[t].count <= 1 \/ thr[t].bi >= thr[t].count
                 THEN [thr[t] EXCEPT !.pc = "b_stack"]
                 ELSE IF z_stepper.emergency_stop
                 THEN [thr[t] EXCEPT !.pc = "exit", !.ret = "stopped"]
                 ELSE [thr[t] EXCEPT !.pc = "b_move",
                          !.tmp = V4_position(thr[t].start_pos, thr[t].end_pos,
                                              thr[t].count, thr[t].bi)]]
    /\ UNCHANGED <<rev, motor, motor_status, output, z_stepper, fs, cam, burst_counter>>

\* line 559: z_stepper.move_to(pos, speed, acceleration)
V4_b_move(t) ==
    /\ rev = 4 /\ thr[t].pc = "b_move"
    /\ V4_move_to(t, "b_wait", thr[t].speed, thr[t].accel)

\* lines 568-571: request.save("main", f"{burst_dir}/burst_{pos:04d}.jpeg")
V4_b_capture(t) ==
    /\ rev = 4 /\ thr[t].pc = "b_capture"
    /\ fs' = [fs EXCEPT ![thr[t].dir] = @ \cup {thr[t].tmp}]
    /\ thr' = [thr EXCEPT ![t] = [thr[t] EXCEPT !.pc = "b_loop", !.bi = @ + 1]]
    /\ UNCHANGED <<rev, motor, motor_status, output, z_stepper, cam, burst_counter>>

\* lines 573-596: the focus stacking job is built and run inside a try
\* block; with ok it returns, otherwise it raises and `except Exception`
\* logs the failure. Either way take_burst returns after it. The job reads
\* the images of burst_dir and writes its results under the names of its
\* actions ("align", "stack"), not over the burst_NNNN.jpeg files; the
\* code touches neither z_stepper nor the image files.
V4_b_stack(t, ok) ==
    /\ rev = 4 /\ thr[t].pc = "b_stack"
    /\ thr' = [thr EXCEPT ![t] =
                 [thr[t] EXCEPT !.pc = "exit",
                                !.ret = IF ok THEN "ended" ELSE "stack_failed"]]
    /\ UNCHANGED <<rev, motor, motor_status, output, z_stepper, fs, cam, burst_counter>>

V4BurstStep(t) ==
    \/ V4_b_alloc(t)
    \/ V4_b_mkdir(t)
    \/ V4_b_start(t)
    \/ V4_wait(t, "b_wait0", "b_chk0", "b_loop")
    \/ V4_chk(t, "b_wait0", "b_chk0")
    \/ V4_b_loop(t)
    \/ V4_b_move(t)
    \/ V4_wait(t, "b_wait", "b_chk", "b_capture")
    \/ V4_chk(t, "b_wait", "b_chk")
    \/ V4_b_capture(t)
    \/ \E ok \in BOOLEAN : V4_b_stack(t, ok)

(* ====================================================================== *)
(*                           specifications                               *)
(* ====================================================================== *)
\* Placeholders held by the variables of the other revisions.
Unused == [unused |-> TRUE]

\* A step of the program that is / is not a set-zero call.
ZeroCall(A) ==
    /\ A
    /\ zero_calls' = IF zero_calls < 2 THEN zero_calls + 1 ELSE 2
    /\ pulses' = pulses
Other(A) ==
    /\ A
    /\ zero_calls' = 0
    /\ pulses' = pulses

\* The same, counting the pulses: a step of a thread at its pulse (the
\* write of the step pin) adds the direction of that thread's move, a
\* set-zero call starts the count again.
Pulsed(t) == thr[t].pc = "pulse" /\ thr'[t].emitted = thr[t].emitted + 1
PulseDelta ==
    IF \E t \in DOMAIN thr : Pulsed(t)
    THEN thr[CHOOSE t \in DOMAIN thr : Pulsed(t)].direction
    ELSE 0
CountZero(A) ==
    /\ A
    /\ zero_calls' = IF zero_calls < 2 THEN zero_calls + 1 ELSE 2
    /\ pulses' = 0
Count(A) ==
    /\ A
    /\ zero_calls' = 0
    /\ pulses' = pulses + PulseDelta

InitV2Move ==
    /\ rev = 2
    /\ motor = V2MotorInit
    /\ motor_status = V2StatusInit
    /\ output = V2OutputInit
    /\ z_stepper = Unused
    /\ cam = CamIdle
    /\ burst_counter = 1
    /\ zero_calls = 0
    /\ pulses = 0
    /\ fs = NoFiles
    /\ thr = [t \in {"j1"} |-> IdleThread]

\* Two handler threads serving one /api/move request each, at once
\* (ThreadingMixIn), from the initial state; the run ends when both
\* moves have returned.
InitV2Race ==
    /\ rev = 2
    /\ motor = V2MotorInit
    /\ motor_status = V2StatusInit
    /\ output = V2OutputInit
    /\ z_stepper = Unused
    /\ cam = CamIdle
    /\ burst_counter = 1
    /\ zero_calls = 0
    /\ pulses = 0
    /\ fs = NoFiles
    /\ thr = [t \in V2JogThreads |-> IdleThread]

NextV2Race ==
    \/ Other(V2JogRequest)
    \/ Other(\E t \in DOMAIN thr : V2MoveStep(t))

SpecV2Race == InitV2Race /\ [][NextV2Race]_vars

\* One burst run with the camera writing frames, and set-zero and
\* emergency-stop requests.
InitV2Burst ==
    /\ rev = 2
    /\ motor = V2MotorInit
    /\ motor_status = V2StatusInit
    /\ output = V2OutputInit
    /\ z_stepper = Unused
    /\ cam = CamIdle
    /\ burst_counter = 1
    /\ zero_calls = 0
    /\ pulses = 0
    /\ fs = NoFiles
    /\ thr = [t \in {"b"} |-> IdleThread]

NextV2Burst ==
    \/ Other(V2BurstRequest)
    \/ Other(\E t \in DOMAIN thr : V2MoveStep(t))
    \/ Other(\E t \in DOMAIN thr : V2BurstStep(t))
    \/ Other(V2CamStep)
    \/ ZeroCall(V2_set_zero)
    \/ Other(V2_api_emergency_stop)

SpecV2Burst == InitV2Burst /\ [][NextV2Burst]_vars

\* Two burst runs, one after the other, with the camera writing frames.
InitV2Runs ==
    /\ rev = 2
    /\ motor = V2MotorInit
    /\ motor_status = V2StatusInit
    /\ output = V2OutputInit
    /\ z_stepper = Unused
    /\ cam = CamIdle
    /\ burst_counter = 1
    /\ zero_calls = 0
    /\ pulses = 0
    /\ fs = NoFiles
    /\ thr = [t \in BurstThreads |-> IdleThread]

NextV2Runs ==
    \/ Other(V2RunRequest)
    \/ Other(\E t \in DOMAIN thr : V2MoveStep(t))
    \/ Other(\E t \in DOMAIN thr : V2BurstStep(t))
    \/ Other(V2CamStep)

SpecV2Runs == InitV2Runs /\ [][NextV2Runs]_vars

NextV2Move ==
    \/ Other(V2JogRequest)
    \/ Other(\E t \in DOMAIN thr : V2MoveStep(t))
    \/ Other(\E t \in DOMAIN thr : V2_respond(t))
    \/ ZeroCall(V2_set_zero)
    \/ Other(V2_api_emergency_stop)

SpecV2Move == InitV2Move /\ [][NextV2Move]_vars

\* One /move_motor thread and one burst thread, with emergency stop and
\* set-zero requests.
InitV3 ==
    /\ rev = 3
    /\ motor = V3MotorInit
    /\ motor_status = Unused
    /\ output = Unused
    /\ z_stepper = Unused
    /\ cam = CamIdle
    /\ burst_counter = 1
    /\ zero_calls = 0
    /\ pulses = 0
    /\ fs = NoFiles
    /\ thr \in {[t \in {"m1"} |-> IdleThread], [t \in {"b"} |-> IdleThread]}

NextV3 ==
    \/ Other(V3JogRequest)
    \/ Other(V3BurstRequest)
    \/ Other(\E t \in DOMAIN thr : V3MoveStep(t))
    \/ Other(\E t \in DOMAIN thr : V3BurstStep(t))
    \/ Other(V3_emergency_stop)
    \/ ZeroCall(V3_set_zero)

SpecV3 == InitV3 /\ [][NextV3]_vars

\* One /api/move handler and the move threads it starts, with emergency
\* stop and set-zero requests.
InitV4 ==
    /\ rev = 4
    /\ motor = Unused
    /\ motor_status = Unused
    /\ output = Unused
    /\ z_stepper = V4MotorInit
    /\ cam = CamIdle
    /\ burst_counter = 1
    /\ zero_calls = 0
    /\ pulses = 0
    /\ fs = NoFiles
    /\ thr = [t \in {"r1", "t1"} |-> IdleThread]

NextV4 ==
    \/ Other(V4JogRequest)
    \/ Other(\E t \in DOMAIN thr : V4MoveStep(t))
    \/ Other(V4_emergency_stop_now)
    \/ ZeroCall(V4_set_zero)

SpecV4 == InitV4 /\ [][NextV4]_vars

(* --------------------------- two burst runs --------------------------- *)
\* Two burst requests in any of the revisions, each served by its own
\* thread; no camera writer, no other request.
InitRuns ==
    /\ rev \in {2, 3, 4}
    /\ motor = CASE rev = 2 -> V2MotorInit [] rev = 3 -> V3MotorInit
                 [] OTHER -> Unused
    /\ motor_status = IF rev = 2 THEN V2StatusInit ELSE Unused
    /\ output = IF rev = 2 THEN V2OutputInit ELSE Unused
    /\ z_stepper = IF rev = 4 THEN V4MotorInit ELSE Unused
    /\ cam = CamIdle
    /\ burst_counter = 1
    /\ zero_calls = 0
    /\ pulses = 0
    /\ fs = NoFiles
    /\ thr = [t \in BurstThreads \cup (IF rev = 4 THEN {"t1"} ELSE {}) |->
                IdleThread]

\* the end positions of the requests (start 0, two images, valid speed
\* and acceleration)
RunEnds == {0, 1}

RunRequest ==
    \E e \in RunEnds :
        \/ V2_api_burst(FreeThread(BurstThreads), 0, e, 2, 1000)
        \/ V3_take_burst(FreeThread(BurstThreads), 0, e, 2, 1000, 1000)
        \/ V4_api_burst(FreeThread(BurstThreads), 0, e, 2, 1000, 1000)

\* pcs at which a burst thread is choosing and making its directory
AllocPcs == {"b_alloc", "b_mkdir"}
Allocating == \E t \in DOMAIN thr : thr[t].pc \in AllocPcs

V2RunStep == \E t \in DOMAIN thr : V2MoveStep(t) \/ V2BurstStep(t)
V3RunStep == \E t \in DOMAIN thr : V3MoveStep(t) \/ V3BurstStep(t)
V4RunStep == \E t \in DOMAIN thr : V4MoveStep(t) \/ V4BurstStep(t)

\* The second request arrives when the first run has its directory: the
\* two allocations do not interleave.
NextRuns ==
    \/ Other(RunRequest /\ ~Allocating)
    \/ Other(V2RunStep)
    \/ Other(V3RunStep)
    \/ Other(V4RunStep)

SpecRuns == InitRuns /\ [][NextRuns]_vars

\* The second request arrives at any time.
NextRaces ==
    \/ Other(RunRequest)
    \/ Other(V2RunStep)
    \/ Other(V3RunStep)
    \/ Other(V4RunStep)

SpecRaces == InitRuns /\ [][NextRaces]_vars

(* --------------------- main-v3: two moves at once --------------------- *)
\* A /move_motor request of one step up, taken at position 0.
V3PlainJogRequest ==
    motor.position = 0 /\ V3_move_motor("m1", 1, 1000, 1000)

\* A burst run of two images, at 0 and at MaxPos, with valid speed and
\* acceleration.
V3PlainBurstRequest ==
    V3_take_burst(FreeThread(BurstThreads), 0, MaxPos, 2, 1000, 1000)

\* A /move_motor thread and a burst thread of main-v3, whose move_steps
\* calls run at the same time, with emergency-stop and set-zero requests;
\* the pulses are counted, and requests are taken while the count is
\* within MaxPos of zero.
InitV3Pair ==
    /\ rev = 3
    /\ motor = V3MotorInit
    /\ motor_status = Unused
    /\ output = Unused
    /\ z_stepper = Unused
    /\ cam = CamIdle
    /\ burst_counter = 1
    /\ zero_calls = 0
    /\ pulses = 0
    /\ fs = NoFiles
    /\ thr = [t \in {"m1", "b"} |-> IdleThread]

NextV3Pair ==
    \/ Count(Abs(pulses) <= MaxPos /\ V3PlainJogRequest)
    \/ Count(Abs(pulses) <= MaxPos /\ V3PlainBurstRequest)
    \/ Count(V3RunStep)
    \/ Count(V3_emergency_stop)
    \/ CountZero(V3_set_zero)

SpecV3Pair == InitV3Pair /\ [][NextV3Pair]_vars

\* The same two threads with emergency-stop requests only.
NextV3Stop ==
    \/ Other(V3PlainJogRequest)
    \/ Other(V3PlainBurstRequest)
    \/ Other(V3RunStep)
    \/ Other(V3_emergency_stop)

SpecV3Stop == InitV3Pair /\ [][NextV3Stop]_vars

(* ---------------------- the planned positions ------------------------- *)
\* the defaults of /api/burst in main-v4
DefaultEndPos == 1000
DefaultNumImages == 10

\* the image counts and the end positions a plan is computed for
PlanCounts == {2, MaxImages, DefaultNumImages}
PlanEnds == (0..MaxPos) \cup {DefaultEndPos}

\* The burst code computes the positions of one request, one after the
\* other: thread "p" holds the request, the index bi and, in tmp, the
\* position of that index.
InitPlan ==
    /\ rev \in {2, 3, 4}
    /\ motor = Unused
    /\ motor_status = Unused
    /\ output = Unused
    /\ z_stepper = Unused
    /\ cam = CamIdle
    /\ burst_counter = 1
    /\ zero_calls = 0
    /\ pulses = 0
    /\ fs = NoFiles
    /\ \E s \in 0..MaxPos, e \in PlanEnds, n \in PlanCounts :
         thr = [t \in {"p"} |->
                  [IdleThread EXCEPT !.pc = "plan", !.start_pos = s,
                                     !.end_pos = e, !.count = n]]

\* the index of the next position to compute
PlanIndex(t) == IF thr[t].pc = "plan" THEN 0 ELSE thr[t].bi + 1

PlanStep(t, r, pos) ==
    /\ rev = r /\ thr[t].pc \in {"plan", "planned"}
    /\ PlanIndex(t) < thr[t].count
    /\ thr' = [thr EXCEPT ![t] = [thr[t] EXCEPT !.pc = "planned",
                                                !.bi = PlanIndex(t),
                                                !.tmp = pos]]
    /\ UNCHANGED <<rev, motor, motor_status, output, z_stepper, fs, cam,
                   burst_counter>>

\* main-v2 perform_burst, line 646
V2_plan(t) ==
    PlanStep(t, 2, V2_target_pos(thr[t].start_pos, thr[t].end_pos,
                                 thr[t].count, PlanIndex(t)))
\* main-v3 burst_thread, lines 627-629
V3_plan(t) ==
    PlanStep(t, 3, V3_position(thr[t].start_pos, thr[t].end_pos,
                               thr[t].count, PlanIndex(t)))
\* main-v4 take_burst, lines 550-551
V4_plan(t) ==
    PlanStep(t, 4, V4_position(thr[t].start_pos, thr[t].end_pos,
                               thr[t].count, PlanIndex(t)))

NextPlan ==
    \/ Other(V2_plan("p"))
    \/ Other(V3_plan("p"))
    \/ Other(V4_plan("p"))

SpecPlan == InitPlan /\ [][NextPlan]_vars

(* ------------------------ the speed profile --------------------------- *)
\* the longest move and the highest speed and acceleration of a profile
MaxProfileSteps == 8
MaxRate == 4

\* Speeds are rationals <<numerator, denominator>>, denominator > 0.
RatLeq(a, b) == a[1] * b[2] <= b[1] * a[2]
RatEq(a, b) == a[1] * b[2] = b[1] * a[2]

Min(a, b) == IF a <= b THEN a ELSE b

\* main-v3 move_steps, lines 445-447: steps_to_accel = min(abs_steps // 2,
\* int(speed_hz * speed_hz / (2 * acceleration))), 0 when below 1.
V3_steps_to_accel(abs_steps, speed_hz, acceleration) ==
    LET a == Min(abs_steps \div 2, (speed_hz * speed_hz) \div (2 * acceleration))
    IN  IF a < 1 THEN 0 ELSE a

\* main-v4 _move_thread, line 367: accel_steps = min(steps_to_move // 2,
\* int(speed * speed / (2 * acceleration))).
V4_accel_steps(steps_to_move, speed, acceleration) ==
    Min(steps_to_move \div 2, (speed * speed) \div (2 * acceleration))

\* main-v3 lines 457-462 and main-v4 lines 376-383: the branch step i of n
\* takes, with a ramp of a steps.
RampPhase(n, a, i) ==
    IF i < a THEN "up" ELSE IF i > n - a THEN "down" ELSE "flat"

\* main-v3 lines 457-465: current_speed of step i, after max(1, ...); the
\* delay of the step is 1.0 / current_speed (line 473).
V3_current_speed(abs_steps, speed_hz, acceleration, i) ==
    LET a == V3_steps_to_accel(abs_steps, speed_hz, acceleration)
        phase == RampPhase(abs_steps, a, i)
        raw == CASE phase = "up" -> <<acceleration * i, speed_hz>>
                 [] phase = "down" -> <<acceleration * (abs_steps - i), speed_hz>>
                 [] OTHER -> <<speed_hz, 1>>
    IN  IF raw[1] < raw[2] THEN <<1, 1>> ELSE raw

\* main-v4 lines 376-383: current_speed of step `step`, a factor of speed.
V4_current_speed(steps_to_move, speed, acceleration, step) ==
    LET a == V4_accel_steps(steps_to_move, speed, acceleration)
        phase == RampPhase(steps_to_move, a, step)
    IN  CASE phase = "up" -> <<acceleration * step, speed>>
          [] phase = "down" -> <<acceleration * (steps_to_move - step), speed>>
          [] OTHER -> <<1, 1>>

\* main-v4 lines 391-394: the step rate of the delay, speed * current_speed;
\* when that is 0 the division raises and the except branch sleeps
\* 1 / speed instead.
V4_step_rate(steps_to_move, speed, acceleration, step) ==
    LET cs == V4_current_speed(steps_to_move, speed, acceleration, step)
    IN  IF speed * cs[1] = 0 THEN <<speed, 1>> ELSE <<speed * cs[1], cs[2]>>

\* The step loop of one move computes its delays one step after the other:
\* thread "q" holds the move (steps, speed, acceleration, the ramp length
\* a), the index i of the last step, its branch and its step rate (the
\* inverse of its delay), the rate of the step before, and how many steps
\* so far took each branch and ran at the full requested speed.
InitProfile ==
    /\ rev \in {3, 4}
    /\ motor = Unused
    /\ motor_status = Unused
    /\ output = Unused
    /\ z_stepper = Unused
    /\ cam = CamIdle
    /\ burst_counter = 1
    /\ zero_calls = 0
    /\ pulses = 0
    /\ fs = NoFiles
    /\ \E n \in 1..MaxProfileSteps, sp \in 1..MaxRate, ac \in 1..MaxRate :
         thr = [t \in {"q"} |->
                  [pc |-> "profile", steps |-> n, speed |-> sp, accel |-> ac,
                   a |-> IF rev = 3 THEN V3_steps_to_accel(n, sp, ac)
                         ELSE V4_accel_steps(n, sp, ac),
                   i |-> 0, phase |-> "none", rate |-> <<0, 1>>,
                   prev |-> <<0, 1>>, ups |-> 0, downs |-> 0, flats |-> 0,
                   full |-> 0]]

\* the index of the next step
ProfileIndex(t) == IF thr[t].pc = "profile" THEN 0 ELSE thr[t].i + 1

ProfileStep(t, r, rate) ==
    /\ rev = r /\ thr[t].pc \in {"profile", "stepped"}
    /\ ProfileIndex(t) < thr[t].steps
    /\ LET phase == RampPhase(thr[t].steps, thr[t].a, ProfileIndex(t))
       IN  thr' = [thr EXCEPT ![t] =
                     [thr[t] EXCEPT
                         !.pc = "stepped", !.i = ProfileIndex(t),
                         !.phase = phase, !.rate = rate, !.prev = thr[t].rate,
                         !.ups = IF phase = "up" THEN @ + 1 ELSE @,
                         !.downs = IF phase = "down" THEN @ + 1 ELSE @,
                         !.flats = IF phase = "flat" THEN @ + 1 ELSE @,
                         !.full = IF RatEq(rate, <<thr[t].speed, 1>>)
                                  THEN @ + 1 ELSE @]]
    /\ UNCHANGED <<rev, motor, motor_status, output, z_stepper, fs, cam,
                   burst_counter>>

\* main-v3 move_steps, lines 449-473: one iteration
V3_profile_step(t) ==
    ProfileStep(t, 3, V3_current_speed(thr[t].steps, thr[t].speed,
                                       thr[t].accel, ProfileIndex(t)))
\* main-v4 _move_thread, lines 369-394: one iteration
V4_profile_step(t) ==
    ProfileStep(t, 4, V4_step_rate(thr[t].steps, thr[t].speed,
                                   thr[t].accel, ProfileIndex(t)))

NextProfile ==
    \/ Other(V3_profile_step("q"))
    \/ Other(V4_profile_step("q"))

SpecProfile == InitProfile /\ [][NextProfile]_vars

\* main-v4 with one burst run, the move threads it starts, and emergency
\* stop requests.
V4BurstRequest ==
    \E s \in 0..MaxPos, e \in 0..MaxPos, n \in 0..MaxImages,
       sp \in Speeds, ac \in Accels :
        V4_api_burst(FreeThread(BurstThreads), s, e, n, sp, ac)

InitV4Burst ==
    /\ rev = 4
    /\ motor = Unused
    /\ motor_status = Unused
    /\ output = Unused
    /\ z_stepper = V4MotorInit
    /\ cam = CamIdle
    /\ burst_counter = 1
    /\ zero_calls = 0
    /\ pulses = 0
    /\ fs = NoFiles
    /\ thr = [t \in {"b", "t1"} |-> IdleThread]

NextV4Burst ==
    \/ Other(V4BurstRequest)
    \/ Other(V4RunStep)
    \/ Other(V4_emergency_stop_now)

SpecV4Burst == InitV4Burst /\ [][NextV4Burst]_vars

\* main-v4 with every request that moves the motor or changes its
\* bookkeeping: /api/move of one step up from target 0, one burst run of
\* two images from 0 to 1, both with the default speed and acceleration,
\* emergency stop and set-zero; move_to has two threads it could start.
V4PlainJogRequest ==
    z_stepper.target_position = 0 /\ V4_move("r1", 1, "positive")

V4PlainBurstRequest ==
    V4_api_burst(FreeThread(BurstThreads), 0, 1, 2, 1000, 1000)

\* the call of move_to made by move (lines 340, 342) with the default
\* speed and acceleration
V4_plain_move_call(t) ==
    /\ rev = 4 /\ thr[t].pc = "move_to" /\ thr[t].caller = "jog"
    /\ V4_move_to(t, "respond", 1000, 1000)

V4PlainStep ==
    \E t \in DOMAIN thr :
        \/ V4_plain_move_call(t)
        \/ V4_respond(t)
        \/ V4_mt_entry(t)
        \/ V4_mt_dir(t)
        \/ V4_loop(t)
        \/ V4_pulse(t)
        \/ V4_end(t)
        \/ V4_exit(t)
        \/ V4BurstStep(t)

InitV4Threads ==
    /\ rev = 4
    /\ motor = Unused
    /\ motor_status = Unused
    /\ output = Unused
    /\ z_stepper = V4MotorInit
    /\ cam = CamIdle
    /\ burst_counter = 1
    /\ zero_calls = 0
    /\ pulses = 0
    /\ fs = NoFiles
    /\ thr = [t \in {"r1", "b"} \cup V4MoveThreads |-> IdleThread]

NextV4Threads ==
    \/ Other(V4PlainJogRequest)
    \/ Other(V4PlainBurstRequest)
    \/ Other(V4PlainStep)
    \/ Other(V4_emergency_stop_now)
    \/ ZeroCall(V4_set_zero)

SpecV4Threads == InitV4Threads /\ [][NextV4Threads]_vars

\* main-v4 with its step pulses counted: /api/move requests of one step
\* up from target 0 or 1 with the default speed and acceleration, set-zero
\* and emergency stop, in any order, also while a move is in flight.
V4StepRequest ==
    z_stepper.target_position \in 0..1 /\ V4_move("r1", 1, "positive")

InitV4Count ==
    /\ rev = 4
    /\ motor = Unused
    /\ motor_status = Unused
    /\ output = Unused
    /\ z_stepper = V4MotorInit
    /\ cam = CamIdle
    /\ burst_counter = 1
    /\ zero_calls = 0
    /\ pulses = 0
    /\ fs = NoFiles
    /\ thr = [t \in {"r1"} \cup V4MoveThreads |-> IdleThread]

NextV4Count ==
    \/ Count(Abs(pulses) <= MaxPos /\ V4StepRequest)
    \/ Count(V4PlainStep)
    \/ Count(V4_emergency_stop_now)
    \/ CountZero(V4_set_zero)

SpecV4Count == InitV4Count /\ [][NextV4Count]_vars

\* main-v4 under fair scheduling: one burst run of two images from 0 to 1
\* with the default speed and acceleration, /api/move requests of one step
\* up from target 0 with any speed and acceleration of the request, and
\* emergency stop.  Every thread that can take a step eventually takes
\* one (the threads are operating-system threads); the requests are not
\* forced, and there are finitely many of them.
V4ThreadStep(t) == V4MoveStep(t) \/ V4BurstStep(t)

NextV4Fair ==
    \/ Other(V4PlainJogRequest)
    \/ Other(V4PlainBurstRequest)
    \/ Other(\E t \in DOMAIN thr : V4ThreadStep(t))
    \/ Other(V4_emergency_stop_now)

FairV4 == \A t \in {"r1", "b"} \cup V4MoveThreads : WF_vars(Other(V4ThreadStep(t)))

SpecV4Fair == InitV4Threads /\ [][NextV4Fair]_vars /\ FairV4

\* The three revisions, each serving one move at a time: the program is
\* one of them.
Init == InitV2Move \/ InitV3 \/ InitV4

Next == NextV2Move \/ NextV3 \/ NextV4

Spec == Init /\ [][Next]_vars

(***************************************************************************)
(* Properties of single moves                                              *)
(***************************************************************************)

\* the position counter of the revision
Position ==
    CASE rev = 2 -> motor.current_position
      [] rev = 3 -> motor.position
      [] OTHER   -> z_stepper.current_position

\* the target position of the revision
TargetPosition ==
    CASE rev = 2 -> motor_status.target_position
      [] rev = 3 -> motor.target_position
      [] OTHER   -> z_stepper.target_position

\* The move of thread t, of n > 0 steps, has run to its end, and no
\* emergency stop, set-zero or other move request was served meanwhile.
Uninterrupted(t) ==
    /\ thr[t].ret = "true" /\ thr[t].steps # 0
    /\ thr[t].clean /\ thr[t].after = -1

\* C1: in every revision an uninterrupted single move of n > 0 steps ends
\* at the requested target: exactly n pulses were emitted, the position is
\* the initial position plus the signed step count, and the published
\* position and target agree with it.  (In main-v4 the step count is that
\* of the request: a _move_thread about to read it finds the requested
\* displacement between current_position and target_position.)
C1_MoveReachesTarget ==
    \A t \in DOMAIN thr :
        /\ (rev = 4 /\ thr[t].pc = "mt_entry" /\ thr[t].clean /\ thr[t].after = -1)
            => z_stepper.target_position - z_stepper.current_position = thr[t].req
        /\ Uninterrupted(t) =>
            /\ thr[t].emitted = Abs(thr[t].steps)
            /\ rev = 2 => /\ Position = thr[t].p0 + thr[t].steps
                          /\ motor_status.position = Position
                          /\ motor_status.target_position = Position
            /\ rev = 3 => Position = thr[t].p0 + thr[t].steps
            /\ rev = 4 => /\ Position = thr[t].p0 + thr[t].direction * thr[t].steps
                          /\ Position = z_stepper.target_position

\* A move_to_position of main-v3 of at least two steps has completed.
C1_Witness ==
    /\ rev = 3
    /\ \E t \in DOMAIN thr : Uninterrupted(t) /\ Abs(thr[t].steps) >= 2

\* C2: in main-v2 and main-v3, while no set-zero and no other move is
\* served, the position between steps and after the loop has ended,
\* completed or cut short by an emergency stop, is the initial position
\* plus or minus the number k of pulses emitted; k never exceeds the
\* request.
C2_StoppedMoveKeepsCount ==
    \A t \in DOMAIN thr :
        ( /\ rev \in {2, 3}
          /\ thr[t].clean
          /\ \/ thr[t].pc \in {"loop", "finally", "fin2", "end"}
             \/ thr[t].ret \in {"true", "false"} )
        => /\ Position = thr[t].p0 + thr[t].direction * thr[t].emitted
           /\ thr[t].emitted <= Abs(thr[t].steps)
           /\ thr[t].ret = "false" => thr[t].emitted < Abs(thr[t].steps)

\* An emergency stop has cut a move of main-v3 short after its first pulse.
C2_Witness ==
    /\ rev = 3
    /\ \E t \in DOMAIN thr :
        /\ thr[t].ret = "false" /\ thr[t].clean /\ thr[t].after >= 0
        /\ thr[t].emitted >= 1
        /\ motor.position = thr[t].p0 + thr[t].direction * thr[t].emitted

\* C3: in main-v4 current_position follows the pulses one by one, so that
\* a position request during a move, or after an emergency stop, is not
\* stale.
C3_PositionTracksPulses ==
    rev = 4 =>
        \A t \in DOMAIN thr :
            (thr[t].pc \in {"loop", "pulse", "end", "exit"} /\ thr[t].clean
                /\ thr[t].ret # "raised")
            => V4_api_position = thr[t].p0 + thr[t].direction * thr[t].emitted

\* C4: in every revision, once an emergency-stop call has returned, the
\* move in flight emits at most one further pulse.
C4_OneFurtherPulse ==
    \A t \in DOMAIN thr : thr[t].after <= 1

\* C5: in every revision a move request that finds the emergency-stop
\* state or flag set is refused: the thread enters no step loop, and the
\* position and target are left as they were.
C5_StoppedRefusesMove ==
    [][ \A t \in DOMAIN thr :
          /\ ( rev = 2 /\ motor_status.state = "emergency_stop"
                 /\ thr[t].pc = "idle" /\ thr'[t].pc # "idle" )
             => ( thr'[t].ret = "refused" /\ ~(thr'[t].pc \in MovePcs)
                    /\ motor' = motor /\ motor_status' = motor_status )
          /\ ( rev = 3 /\ motor.emergency_stop_flag
                 /\ thr[t].pc = "ms_lock" /\ thr'[t].pc # "ms_lock" )
             => ( thr'[t].ret = "refused" /\ ~(thr'[t].pc \in MovePcs)
                    /\ thr'[t].emitted = 0
                    /\ motor'.position = motor.position
                    /\ motor'.target_position = motor.target_position )
          /\ ( rev = 4 /\ z_stepper.emergency_stop
                 /\ thr[t].pc = "move_to" /\ thr'[t].pc # "move_to" )
             => ( thr'[t].ret = "refused" /\ z_stepper' = z_stepper
                    /\ \A u \in DOMAIN thr : u # t => thr'[u] = thr[u] )
      ]_vars

\* A move request of main-v3 was refused because the flag was set.
C5_Witness ==
    /\ rev = 3
    /\ \E t \in DOMAIN thr :
        thr[t].ret = "refused" /\ thr[t].emitted = 0 /\ motor.position = thr[t].p0

\* C6: in main-v2, once an emergency-stop call has been served, the state
\* is emergency_stop and stays so, and the move in flight emits no pulse
\* beyond the one it may have been in the middle of.
C6_StopLatches ==
    rev = 2 =>
        \A t \in DOMAIN thr :
            thr[t].after >= 0 =>
                motor_status.state = "emergency_stop" /\ thr[t].after <= 1

\* C7: in main-v2 and main-v3 a second move request issued while a move is
\* in flight does not run its step loop at the same time as the first.
C7_OneStepLoop ==
    Cardinality({t \in DOMAIN thr : InLoop(t)}) <= 1

(***************************************************************************)
(* Set-zero                                                                *)
(***************************************************************************)

\* C8: in every revision, after one set-zero call and after a second one
\* in a row, the position and the target position are 0 (and with them,
\* in main-v2, the published position).
C8_SetZeroIdempotent ==
    zero_calls >= 1 =>
        /\ Position = 0
        /\ TargetPosition = 0
        /\ rev = 2 => motor_status.position = 0

\* Set-zero was called twice in a row, with no move in flight, after a
\* completed move had left the position away from 0.
C8_Witness ==
    /\ zero_calls = 2
    /\ \A t \in DOMAIN thr : ~InMove(t)
    /\ \E t \in DOMAIN thr :
        thr[t].ret = "true" /\ thr[t].emitted >= 1 /\ thr[t].after = -1
    /\ Position = 0 /\ TargetPosition = 0

(***************************************************************************)
(* Burst progress                                                          *)
(***************************************************************************)

\* the burst run of the behaviour has ended
BurstEnded ==
    /\ "b" \in DOMAIN thr
    /\ thr["b"].pc \in {"idle", "exit"}
    /\ fs # NoFiles

\* C9: in main-v2, once perform_burst has run its cleanup, no status
\* snapshot shows the state idle together with a burst progress strictly
\* between 0 and 100 percent, however the camera writer interleaves.
C9_NoLeftoverProgress ==
    (rev = 2 /\ BurstEnded /\ V2_get_status.state = "idle")
    => ~( /\ 0 < V2_get_status.burst_progress[1]
          /\ V2_get_status.burst_progress[1] < V2_get_status.burst_progress[2] )

\* C10: in main-v3, on every exit path of burst_thread (all images taken,
\* cancelled by an emergency stop, ended by an exception) burst_progress
\* is 0 once the thread has ended.
C10_ProgressResetOnExit ==
    (rev = 3 /\ BurstEnded) => motor.burst_progress = 0

\* C11: in main-v2 the number of frames counted never exceeds the number
\* requested: output.burst_count <= output.burst_total in every state,
\* for any interleaving of burst requests and camera frame writes.
C11_CountWithinTotal ==
    rev = 2 => output.burst_count <= output.burst_total

\* thread t is inside a burst run: its run has started (main-v2: the
\* begin block, lines 629-634, is done; main-v3: the directory is made)
\* and its cleanup has not executed yet
InRun(t) ==
    /\ t \in BurstThreads \cap DOMAIN thr
    /\ thr[t].pc \notin {"idle", "exit", "b_alloc", "b_mkdir", "b_begin"}

\* the reported burst progress as a fraction <<numerator, denominator>>
BurstProgress ==
    IF rev = 2 THEN motor_status.burst_progress
    ELSE <<motor.burst_progress, 100>>

\* C12: in main-v2 and main-v3, within one burst run (from its start
\* until its cleanup) the reported burst progress never decreases.
C12_ProgressMonotone ==
    [][(rev \in {2, 3} /\ \E t \in BurstThreads : InRun(t) /\ InRun(t)')
        => BurstProgress[1] * BurstProgress'[2]
             <= BurstProgress'[1] * BurstProgress[2]]_vars

(***************************************************************************)
(* Burst positions and directories                                         *)
(***************************************************************************)

\* the positions the burst of start 0, end 1000 and 10 images is to visit
DefaultPositions == <<0, 111, 222, 333, 444, 556, 667, 778, 889, 1000>>

\* C13: in every revision the burst with start 0, end 1000 and 10 images
\* plans exactly the positions 0, 111, 222, 333, 444, 556, 667, 778, 889,
\* 1000, in this order.
C13_DefaultBurstPositions ==
    \A t \in DOMAIN thr :
        ( /\ thr[t].pc = "planned"
          /\ thr[t].start_pos = 0 /\ thr[t].end_pos = DefaultEndPos
          /\ thr[t].count = DefaultNumImages )
        => thr[t].tmp = DefaultPositions[thr[t].bi + 1]

\* main-v3 alone plans the positions of C13
C13_RoundedPositions ==
    rev = 3 => C13_DefaultBurstPositions

\* the k-th position (k from 0) of the run of burst thread t
PlannedPosition(t, k) ==
    CASE rev = 2 -> V2_target_pos(thr[t].start_pos, thr[t].end_pos, thr[t].count, k)
      [] rev = 3 -> V3_position(thr[t].start_pos, thr[t].end_pos, thr[t].count, k)
      [] OTHER   -> V4_position(thr[t].start_pos, thr[t].end_pos, thr[t].count, k)

\* burst thread t is past the making of its directory
PastAlloc(t) ==
    /\ t \in BurstThreads \cap DOMAIN thr
    /\ thr[t].pc \notin {"idle"} \cup AllocPcs

C15_NoSharedDirectory ==
    \A t, u \in BurstThreads \cap DOMAIN thr :
        (t # u /\ PastAlloc(t) /\ PastAlloc(u)) => thr[t].dir # thr[u].dir

(***************************************************************************)
(* Emergency stop during a burst                                           *)
(***************************************************************************)

\* pcs of take_burst while the move to start_pos is awaited, and of the
\* test that follows it
V4StartPcs == {"b_start", "b_wait0", "b_chk0"}

\* the emergency stop is set while burst thread t has not gone past the
\* move to start_pos (or is at the test before the first position)
V4StoppedAtStart(t) ==
    /\ z_stepper.emergency_stop
    /\ \/ thr[t].pc \in V4StartPcs
       \/ thr[t].pc = "b_loop" /\ thr[t].bi = 0

\* C16: in main-v4, when emergency_stop_now() is called while take_burst
\* moves to startPos, the run is aborted: it takes no image and starts no
\* move to a planned position.
C16_StopAtStartAborts ==
    [][\A t \in BurstThreads \cap DOMAIN thr :
          (rev = 4 /\ V4StoppedAtStart(t))
          => /\ V4StoppedAtStart(t)' \/ thr'[t].pc \in {"exit", "b_stack"}
             /\ thr'[t].pc = "exit" => thr'[t].ret = "stopped"
             /\ thr'[t].pc = "b_stack" => thr'[t].count <= 1
             /\ fs' = fs /\ fs[thr[t].dir] = {}
             /\ \A u \in V4MoveThreads \cap DOMAIN thr :
                  thr[u].pc = "idle" => thr'[u].pc = "idle"]_vars

\* the move to start_pos was cut by the emergency stop after a pulse, and
\* the burst has ended with no image
C16_Witness ==
    /\ rev = 4 /\ "b" \in DOMAIN thr
    /\ thr["b"].pc = "exit" /\ thr["b"].ret = "stopped" /\ thr["b"].bi = 0
    /\ thr["b"].count >= 2
    /\ thr["t1"].pc = "exit" /\ thr["t1"].ret = "false" /\ thr["t1"].emitted >= 1
    /\ fs[thr["b"].dir] = {}

\* the last move of burst thread t was cut by an emergency stop
V3MoveCut(t) ==
    /\ t \in BurstThreads \cap DOMAIN thr
    /\ thr[t].pc \in {"b_loop", "b_capture"}
    /\ thr[t].ret = "false"

\* C17: in main-v3, when emergency_stop() is called during a move of a
\* burst, the whole run is aborted: once the move has been cut the run
\* takes no image and starts no further move to a planned position.
C17_StopDuringBurstMoveAborts ==
    [][\A t \in BurstThreads \cap DOMAIN thr :
          (rev = 3 /\ V3MoveCut(t))
          => /\ fs' = fs
             /\ thr'[t].pc \in {"b_loop", "b_capture", "b_end", "exit"}]_vars

(***************************************************************************)
(* Requests with invalid parameters                                        *)
(***************************************************************************)

\* C18: in every revision a move request with speed <= 0 (main-v3 and
\* main-v4: or acceleration <= 0) is rejected or clamped: no division by
\* zero occurs, so no move ends by an exception before its first pulse.
\* (The exception after the first pulse is the TypeError of main-v3's
\* callback, and main-v4's failing sleep.)
C18_NoDivisionByZero ==
    \A t \in DOMAIN thr : thr[t].ret = "raised" => thr[t].emitted >= 1

\* C19: in every revision a burst request with fewer than two images is
\* rejected: its thread starts no move (to startPos), takes no image and
\* raises no exception (the division by imageCount - 1).
C19_ShortBurstRejected ==
    \A t \in BurstThreads \cap DOMAIN thr :
        (thr[t].pc # "idle" /\ thr[t].count < 2)
        => /\ ~InMove(t)
           /\ thr[t].ret \notin {"raised", "started", "retargeted"}
           /\ thr[t].dir \in DOMAIN fs => fs[thr[t].dir] = {}

(***************************************************************************)
(* The move threads of main-v4                                             *)
(***************************************************************************)

\* the _move_threads that are inside the step loop
V4InLoop == {t \in V4MoveThreads \cap DOMAIN thr : InLoop(t)}

\* a _move_thread is started in this step
V4ThreadStarted ==
    \E t \in V4MoveThreads \cap DOMAIN thr :
        thr[t].pc = "idle" /\ thr'[t].pc = "mt_entry"

\* C20: in main-v4, for any interleaving of move, burst, set-zero and
\* emergency-stop requests, at most one _move_thread is inside the step
\* loop; move_to starts a thread only when is_moving is false; and
\* is_moving stays true while that thread is pulsing, unless an emergency
\* stop has been requested.
C20_OneMoveThread ==
    /\ [](rev = 4 =>
            /\ Cardinality(V4InLoop) <= 1
            /\ (V4InLoop # {} /\ ~z_stepper.emergency_stop)
               => z_stepper.is_moving)
    /\ [][(rev = 4 /\ V4ThreadStarted) => ~z_stepper.is_moving]_vars

\* a _move_thread is pulsing for the /api/move request while the burst's
\* move_to call has found is_moving set and started no thread
C20_Witness ==
    /\ rev = 4 /\ "b" \in DOMAIN thr
    /\ \E t \in V4InLoop : thr[t].emitted >= 1
    /\ thr["b"].ret = "retargeted"
    /\ z_stepper.is_moving

(***************************************************************************)
(* The end of a move                                                       *)
(***************************************************************************)

\* the motor is reported as moving
Moving ==
    CASE rev = 2 -> motor_status.state = "moving"
      [] rev = 3 -> motor.moving
      [] OTHER   -> z_stepper.is_moving

\* the revision is in its emergency-stop state
EmergencyStopped ==
    CASE rev = 2 -> motor_status.state = "emergency_stop"
      [] rev = 3 -> motor.emergency_stop_flag
      [] OTHER   -> z_stepper.emergency_stop

\* the move of thread t has left its step loop: at the end of the steps,
\* by an emergency stop, or by an exception raised inside the loop
LoopLeft(t) ==
    /\ thr[t].pc \notin MovePcs \cup {"idle"}
    /\ \/ thr[t].ret \in {"true", "false"}
       \/ thr[t].ret = "raised" /\ thr[t].emitted >= 1

\* C21: in every revision, after a move's step loop has exited (at the
\* end of the steps, by an emergency stop, or by an exception raised
\* during a step) and no other move is in flight, the motor is not
\* reported as moving unless it is in the emergency-stop state.
C21_NotMovingAfterLoop ==
    \A t \in DOMAIN thr :
        (LoopLeft(t) /\ ~OthersInMove(t)) => (~Moving \/ EmergencyStopped)

\* C22: in main-v2 and main-v4, after a move has been interrupted by an
\* emergency stop (and no set-zero or other move request was served
\* meanwhile), target_position is the position actually reached: the
\* initial position plus or minus the pulses emitted, not the target
\* that was requested.
C22_TargetSyncedAfterStop ==
    \A t \in DOMAIN thr :
        ( /\ rev \in {2, 4}
          /\ thr[t].ret = "false" /\ thr[t].after >= 0
          /\ thr[t].clean /\ ~OthersInMove(t) )
        => TargetPosition = thr[t].p0 + thr[t].direction * thr[t].emitted

(***************************************************************************)
(* The state and the captures of a burst run                               *)
(***************************************************************************)

\* C23: in main-v2, from the moment perform_burst has set the state to
\* BURST until its cleanup runs, every status snapshot reports the state
\* burst (or emergency_stop): the moves of the run never make it read
\* moving or idle.
C23_BurstStateHeld ==
    \A t \in BurstThreads \cap DOMAIN thr :
        (rev = 2 /\ InRun(t))
        => V2_get_status.state \in {"burst", "emergency_stop"}

\* C24: in main-v4 take_burst, with no emergency stop and no other move
\* or set-zero request during the run, the planned positions are visited
\* in list order and each image is captured only after the move to its
\* position has completed: at every capture is_moving is false,
\* current_position is the position encoded in the file name, and the
\* images taken before are those of the positions before it in the list.
C24_CaptureAfterMove ==
    \A t \in BurstThreads \cap DOMAIN thr :
        (rev = 4 /\ thr[t].pc = "b_capture" /\ ~z_stepper.emergency_stop)
        => /\ ~z_stepper.is_moving
           /\ thr[t].tmp = V4_position(thr[t].start_pos, thr[t].end_pos,
                                       thr[t].count, thr[t].bi)
           /\ z_stepper.current_position = thr[t].tmp
           /\ fs[thr[t].dir] =
                {V4_position(thr[t].start_pos, thr[t].end_pos, thr[t].count, k) :
                    k \in 0..(thr[t].bi - 1)}

\* the run is about to capture its second image, at a position it had to
\* move to
C24_Witness ==
    /\ rev = 4 /\ "b" \in DOMAIN thr
    /\ thr["b"].pc = "b_capture" /\ thr["b"].bi = 1
    /\ ~z_stepper.emergency_stop
    /\ thr["b"].tmp # thr["b"].start_pos
    /\ z_stepper.current_position = thr["b"].tmp

\* the camera writer saves a frame in this step (lines 506-508)
V2FrameSaved == cam.pc = "c_check" /\ cam'.pc = "c_rd"

\* C25: in main-v2, during a burst run an image is saved only after the
\* move to a planned position has completed: no frame is saved while a
\* move is being executed (the move to the start position included), and
\* every file name encodes one of the planned target positions.
C25_SavedOnlyAtPositions ==
    [][(rev = 2 /\ V2FrameSaved)
        => /\ \A t \in DOMAIN thr : ~InMove(t)
           /\ \E t \in BurstThreads \cap DOMAIN thr :
                \E k \in 0..(thr[t].count - 1) :
                    cam.current_pos = V2_target_pos(thr[t].start_pos,
                                          thr[t].end_pos, thr[t].count, k)]_vars

\* burst thread t of main-v3 updates burst_progress in this step (line 637)
V3ProgressUpdated(t) == thr[t].pc = "b_loop" /\ thr'[t].pc = "b_move"

\* C26: in main-v3 burst_thread, whenever burst_progress is updated during
\* a run its value is floor(100 * capturedCount / num_images), where
\* capturedCount is the number of images the run has captured so far (the
\* index bi): progress is updated after the capture it reports.
C26_ProgressCountsCaptures ==
    [][\A t \in BurstThreads \cap DOMAIN thr :
          (rev = 3 /\ V3ProgressUpdated(t))
          => motor'.burst_progress = (100 * thr[t].bi) \div thr[t].count]_vars

(***************************************************************************)
(* The planned positions of main-v3                                        *)
(***************************************************************************)

\* num / den (den > 0) rounded to the nearest integer, exact halves away
\* from zero
RoundHalfAway(num, den) ==
    IF num >= 0 THEN (2 * num + den) \div (2 * den)
    ELSE -((2 * (-num) + den) \div (2 * den))

\* C27: for all start_pos, end_pos and num_images >= 2 of the bounds,
\* the i-th planned position of main-v3 (0 <= i < num_images) is
\* start_pos + (end_pos - start_pos) * i / (num_images - 1) rounded to the
\* nearest integer, exact halves away from zero; the first position is
\* start_pos and the last is end_pos.
C27_RoundHalfAwayPositions ==
    \A t \in DOMAIN thr :
        (rev = 3 /\ thr[t].pc = "planned")
        => /\ thr[t].tmp =
                RoundHalfAway(thr[t].start_pos * (thr[t].count - 1)
                                + (thr[t].end_pos - thr[t].start_pos) * thr[t].bi,
                              thr[t].count - 1)
           /\ thr[t].bi = 0 => thr[t].tmp = thr[t].start_pos
           /\ thr[t].bi = thr[t].count - 1 => thr[t].tmp = thr[t].end_pos

(***************************************************************************)
(* The speed profile of a move                                             *)
(***************************************************************************)

\* the move of thread t has computed its last step
ProfileDone(t) == thr[t].pc = "stepped" /\ thr[t].i = thr[t].steps - 1

\* C28: in main-v3 move_steps and main-v4 _move_thread, for every step
\* count n >= 1 and positive speed and acceleration, the ramp length a
\* satisfies 2 * a <= n, and whenever 2 * a >= n exactly one step of the
\* move runs at plateau speed (the requested speed).
C28_TriangularProfile ==
    \A t \in DOMAIN thr :
        /\ 2 * thr[t].a <= thr[t].steps
        /\ (ProfileDone(t) /\ 2 * thr[t].a >= thr[t].steps) => thr[t].full = 1

\* The plateau branch of the loop, whatever the speed of the other steps:
\* with 2 * a >= n exactly one step takes it.
C28_OnePlateauBranch ==
    \A t \in DOMAIN thr :
        /\ 2 * thr[t].a <= thr[t].steps
        /\ (ProfileDone(t) /\ 2 * thr[t].a >= thr[t].steps) => thr[t].flats = 1

\* C29: in main-v3 move_steps and main-v4 _move_thread, with positive
\* integer speed and acceleration, the step rate of every step (1 / delay)
\* never exceeds the requested speed, and over the ramp-up steps it is
\* non-decreasing from the first step to the plateau.
C29_RateBounded ==
    \A t \in DOMAIN thr :
        thr[t].pc = "stepped" =>
            /\ RatLeq(thr[t].rate, <<thr[t].speed, 1>>)
            /\ (1 <= thr[t].i /\ thr[t].i <= thr[t].a) =>
                   RatLeq(thr[t].prev, thr[t].rate)

\* C30: in main-v3 move_steps the delay schedule of an n-step move is
\* symmetric: the ramp-down has as many steps as the ramp-up, and the delay
\* of step i equals the delay of step n-1-i.
C30_SymmetricSchedule ==
    \A t \in DOMAIN thr :
        (rev = 3 /\ thr[t].pc = "stepped") =>
            /\ RatEq(thr[t].rate,
                     V3_current_speed(thr[t].steps, thr[t].speed, thr[t].accel,
                                      thr[t].steps - 1 - thr[t].i))
            /\ ProfileDone(t) => thr[t].ups = thr[t].downs

(***************************************************************************)
(* The focus stacking of main-v4                                           *)
(***************************************************************************)

\* the positions burst thread t plans (lines 547-551)
V4Planned(t) ==
    IF thr[t].count > 1
    THEN {V4_position(thr[t].start_pos, thr[t].end_pos, thr[t].count, k) :
            k \in 0..(thr[t].count - 1)}
    ELSE {}

\* burst thread t starts / runs the stacking job in this step
V4StackStarted(t) == thr[t].pc # "b_stack" /\ thr'[t].pc = "b_stack"
V4StackRan(t) == thr[t].pc = "b_stack" /\ thr'[t].pc # "b_stack"

V3Entered(t) == thr[t].pc = "ms_lock" /\ thr'[t].pc # "ms_lock"

\* some thread is inside the step loop of move_steps, where the flag is read
V3MoveInFlight == \E t \in DOMAIN thr : thr[t].pc \in {"loop", "pulse", "upd"}

\* C32: in main-v3 an emergency_stop() issued while no move is in flight is
\* consumed by exactly the next move_steps call: the flag stays set until a
\* move_steps call enters, that call emits no pulse, leaves position
\* unchanged and clears emergency_stop_flag, and a call that finds the flag
\* clear is not refused: it sets moving and goes into its step loop.
C32_StopConsumedByNextMove ==
    [][rev = 3 =>
         /\ \A t \in DOMAIN thr :
              V3Entered(t) =>
                IF motor.emergency_stop_flag
                THEN /\ ~motor'.emergency_stop_flag
                     /\ motor'.position = motor.position
                     /\ motor'.moving = motor.moving
                     /\ thr'[t].ret = "refused" /\ thr'[t].emitted = 0
                     /\ thr'[t].pc \notin MovePcs
                ELSE /\ motor'.moving /\ ~motor'.emergency_stop_flag
                     /\ thr'[t].pc = "loop" \/ thr[t].accel = 0
         /\ (motor.emergency_stop_flag /\ ~V3MoveInFlight
             /\ ~motor'.emergency_stop_flag)
            => \E t \in DOMAIN thr : V3Entered(t)]_vars

\* burst thread t executes the locked check at the head of its loop over
\* the positions (lines 632-636) in this step and breaks
V3BurstBroke(t) ==
    /\ t \in BurstThreads /\ thr[t].pc = "b_loop" /\ thr'[t].pc = "b_end"
    /\ thr[t].bi < thr[t].count

\* The amended C32: the flag of an emergency_stop() issued while no move is
\* in flight stays set until the next reader takes it, which is the next
\* move_steps call or the next check of a running burst loop; the reader
\* clears the flag, emits no pulse and leaves position unchanged, and a
\* move_steps call that finds the flag clear is not refused.
C32_StopConsumedByNextReader ==
    [][rev = 3 =>
         /\ \A t \in DOMAIN thr :
              /\ V3Entered(t) =>
                   IF motor.emergency_stop_flag
                   THEN /\ ~motor'.emergency_stop_flag
                        /\ motor'.position = motor.position
                        /\ motor'.moving = motor.moving
                        /\ thr'[t].ret = "refused" /\ thr'[t].emitted = 0
                        /\ thr'[t].pc \notin MovePcs
                   ELSE /\ motor'.moving /\ ~motor'.emergency_stop_flag
                        /\ thr'[t].pc = "loop" \/ thr[t].accel = 0
              /\ (V3BurstBroke(t) /\ motor.emergency_stop_flag) =>
                   /\ ~motor'.emergency_stop_flag
                   /\ motor'.position = motor.position
                   /\ fs' = fs
         /\ (motor.emergency_stop_flag /\ ~V3MoveInFlight
             /\ ~motor'.emergency_stop_flag)
            => \E t \in DOMAIN thr : V3Entered(t) \/ V3BurstBroke(t)]_vars

\* a move_steps call has been refused: it took the flag, emitted no pulse
\* and left the position where it was
C32_Witness ==
    /\ rev = 3
    /\ \E t \in DOMAIN thr :
         /\ thr[t].ret = "refused" /\ thr[t].emitted = 0
         /\ motor.position = thr[t].p0
    /\ ~motor.emergency_stop_flag /\ ~motor.moving

(***************************************************************************)
(* Moves at the same time                                                  *)
(***************************************************************************)

\* no thread is inside a move (between the entry of the move and its return)
NoMoveInFlight == \A t \in DOMAIN thr : thr[t].pc \notin MovePcs \cup {"ms_lock"}

\* C33: in main-v3, for any interleaving of concurrent move_steps calls,
\* emergency_stop and set_zero, whenever no move is in flight position
\* equals the signed number of step pulses emitted since the last set_zero.
C33_PositionCountsPulses ==
    (rev = 3 /\ NoMoveInFlight) => motor.position = pulses

\* the move of thread t of main-v2 has returned to its handler
V2Finished(t) == thr[t].pc = "respond" /\ thr[t].ret \in {"true", "false"}

\* C34: in main-v2, when two move requests run their step loops at the
\* same time, once both have finished current_position and
\* motor_status.position both equal the initial position (0) plus the
\* signed number of pulses the two moves emitted.
C34_NoLostUpdate ==
    (rev = 2 /\ \A t \in V2JogThreads : t \in DOMAIN thr /\ V2Finished(t))
    => LET total == thr["j1"].direction * thr["j1"].emitted
                    + thr["j2"].direction * thr["j2"].emitted
       IN  /\ motor.current_position = total
           /\ motor_status.position = total

\* C35: in main-v2 a move that passed the emergency-stop check and is
\* never emergency-stopped pulses all of its requested steps and returns
\* True, also when another move request runs at the same time and finishes
\* first.
C35_MoveCompletes ==
    \A t \in DOMAIN thr :
        (rev = 2 /\ V2Finished(t) /\ thr[t].after = -1
         /\ motor_status.state # "emergency_stop")
        => thr[t].ret = "true" /\ thr[t].emitted = Abs(thr[t].steps)

\* C36: in main-v3, when two move_steps calls are in flight at once, a
\* single emergency_stop() halts both: after it has returned, each of the
\* two step loops emits at most one further pulse.
\* (after >= 0 marks a move that was in flight when the call returned, and
\* counts its pulses since.)
C36_StopHaltsBoth ==
    (rev = 3 /\ \A t \in DOMAIN thr : thr[t].after >= 0)
    => \A t \in DOMAIN thr : thr[t].after <= 1

(***************************************************************************)
(* The status snapshot of main-v2                                          *)
(***************************************************************************)

\* C37: in main-v2 every snapshot returned by get_status with state idle
\* has position equal to target_position, for any interleaving of move,
\* burst, set-zero and status requests in which no emergency stop occurs.
C37_IdleSnapshotSettled ==
    (rev = 2 /\ V2_get_status.state = "idle")
    => V2_get_status.position = V2_get_status.target_position

(***************************************************************************)
(* The files of a burst run                                                *)
(***************************************************************************)

\* the run of burst thread t has gone through all of its positions
RunCompleted(t) ==
    /\ thr[t].bi = thr[t].count
    /\ thr[t].pc \in {"b_finally", "b_end", "b_stack", "exit"}
    /\ thr[t].ret \notin {"raised", "stopped"}

\* C38: in every revision a burst run of imageCount >= 2 images that
\* completes without emergency stop leaves exactly imageCount distinct
\* image files in its directory, for every startPos and endPos.
C38_OneFilePerImage ==
    \A t \in BurstThreads \cap DOMAIN thr :
        (thr[t].count >= 2 /\ RunCompleted(t) /\ ~EmergencyStopped)
        => Cardinality(fs[thr[t].dir]) = thr[t].count

(***************************************************************************)
(* Termination of a burst run of main-v4                                   *)
(***************************************************************************)

\* C39: in main-v4 every take_burst run with positive speed and
\* acceleration eventually returns under fair scheduling, after its last
\* capture or after an emergency stop, for any interleaving with move and
\* emergency-stop requests: its wait loops on is_moving never spin forever.
C39_BurstReturns ==
    (rev = 4 /\ thr["b"].pc # "idle") ~> (thr["b"].pc = "exit")

(***************************************************************************)
(* The position counter of main-v4 and the pulses                          *)
(***************************************************************************)

\* C40: in main-v4, whenever is_moving is false and emergency stop has
\* never been requested, current_position equals the signed number of
\* step pulses emitted since the last set_zero, also when a further move
\* request or a set_zero request arrives while a move is in flight.
C40_PositionCountsPulses ==
    (rev = 4 /\ ~z_stepper.is_moving /\ ~z_stepper.emergency_stop)
        => z_stepper.current_position = pulses

====
